---- MODULE Spec2Model ----
(***************************************************************************)
(* A model of the OMR evaluation pipeline: answer-key normalisation        *)
(* (omr_scoring.convert_answer_key_letters and the key flattening of       *)
(* app.py), scoring (omr_scoring.calculate_score), and bubble extraction   *)
(* with its fill classifier (omr_bubble_detection).                        *)
(*                                                                         *)
(* Python values are tagged records: [t |-> "str", s |-> <<chars>>],       *)
(* [t |-> "int", i |-> n], [t |-> "bool", b |-> TRUE],                     *)
(* [t |-> "float", k |-> "fin", tenths |-> n] (the float n/10),            *)
(* [t |-> "float", k |-> "nan" | "inf" | "-inf"], [t |-> "none"] and       *)
(* [t |-> "obj"] (any other object).  A str is a sequence of one-character *)
(* strings.  Lists of answers (student answers, the converted key) are     *)
(* sequences of integers.                                                  *)
(***************************************************************************)
EXTENDS Integers, Sequences, FiniteSets, TLC

VARIABLES
    pc,                     \* position of the modelled run
    df_key,                 \* app.py: the uploaded key, a sequence of columns of cells
    answer_key,             \* the key list handed to the converter and the scorer
    via_loader,             \* whether answer_key was produced by the app's key flattening
    converted,              \* convert_answer_key_letters: the returned list
    student_answers,        \* calculate_score: the caller's list object
    num_subjects,           \* layout parameter
    questions_per_subject,  \* layout parameter
    choices_per_question,   \* layout parameter
    subject_scores,         \* calculate_score: first component of the returned tuple
    total_score,            \* calculate_score: second component of the returned tuple
    bubble_ratios,          \* fill classifier: (filled, total) pixel counts of each choice
    strategy,               \* "innomatics" (fixed grid) or "generic"
    selected_choice,        \* fill classifier: the answer chosen for the question
    thresh_img,             \* extract_bubbles: the binary mask
    extracted,              \* extract_bubbles: the returned list of answers
    answer_file,            \* app.py: whether a key file is uploaded
    answer_key_loaded,      \* st.session_state.answer_key_loaded
    subject_names,          \* st.session_state.subject_names
    uploaded_files,         \* app.py: the uploaded sheets, each with its read position
    student_name_input,     \* app.py: the text of the student name field
    idx,                    \* evaluation loop: the number of sheets gone through
    all_results,            \* evaluation loop: the result_dict of each reported sheet
    results_table,          \* db_setup: the results table
    sheet_log,              \* history: per processed sheet, its bytes and its outcome
    runs,                   \* history: the number of script runs so far
    results_cache,          \* st.session_state.results_cache
    db_log                  \* history: the calls of init_db and save_results

vars == <<pc, df_key, answer_key, via_loader, converted, student_answers,
          num_subjects, questions_per_subject, choices_per_question,
          subject_scores, total_score, bubble_ratios, strategy, selected_choice,
          thresh_img, extracted, answer_file, answer_key_loaded, subject_names,
          uploaded_files, student_name_input, idx, all_results, results_table,
          sheet_log, runs, results_cache, db_log>>

keyVars == <<df_key, via_loader, converted>>
scoreVars == <<student_answers, num_subjects, questions_per_subject,
               subject_scores, total_score>>
classifyVars == <<bubble_ratios, selected_choice>>
extractVars == <<thresh_img, extracted>>
appVars == <<answer_file, answer_key_loaded, subject_names, uploaded_files,
             student_name_input, idx, all_results, results_table, sheet_log, runs,
             results_cache, db_log>>

None == [t |-> "none"]

(***************************************************************************)
(* Generic helpers.                                                        *)
(***************************************************************************)
Min(a, b) == IF a <= b THEN a ELSE b
Max(a, b) == IF a >= b THEN a ELSE b

SeqsUpTo(S, n) == UNION {[1..k -> S] : k \in 0..n}

RECURSIVE SumSeq(_)
SumSeq(s) == IF s = <<>> THEN 0 ELSE Head(s) + SumSeq(Tail(s))

\* Python's lst[a:b] for 0 <= a, 0 <= b (indices clamped to the length).
Slice(lst, a, b) == SubSeq(lst, a + 1, Min(b, Len(lst)))

\* "while len(lst) < n: lst.append(v)"
PadTo(lst, n, v) ==
    IF Len(lst) >= n THEN lst ELSE lst \o [k \in 1..(n - Len(lst)) |-> v]

(***************************************************************************)
(* Python str operations, on sequences of characters.                      *)
(***************************************************************************)
Digits == {"0", "1", "2", "3", "4", "5", "6", "7", "8", "9"}

DigitVal(ch) ==
    CASE ch = "0" -> 0 [] ch = "1" -> 1 [] ch = "2" -> 2 [] ch = "3" -> 3
      [] ch = "4" -> 4 [] ch = "5" -> 5 [] ch = "6" -> 6 [] ch = "7" -> 7
      [] ch = "8" -> 8 [] ch = "9" -> 9

DigitChar(d) == <<"0", "1", "2", "3", "4", "5", "6", "7", "8", "9">>[d + 1]

IsSpace(ch) == ch = " "

\* str.lower() on one character.
LowerChar(ch) ==
    CASE ch = "A" -> "a" [] ch = "B" -> "b" [] ch = "C" -> "c" [] ch = "D" -> "d"
      [] ch = "E" -> "e" [] ch = "T" -> "t" [] ch = "F" -> "f"
      [] OTHER -> ch

Lower(s) == [k \in 1..Len(s) |-> LowerChar(s[k])]

RECURSIVE LStrip(_)
LStrip(s) == IF s # <<>> /\ IsSpace(Head(s)) THEN LStrip(Tail(s)) ELSE s

RECURSIVE RStrip(_)
RStrip(s) ==
    IF s # <<>> /\ IsSpace(s[Len(s)]) THEN RStrip(SubSeq(s, 1, Len(s) - 1)) ELSE s

\* str.strip()
Strip(s) == RStrip(LStrip(s))

Sep == <<" ", "-", " ">>

StartsWith(s, p) == Len(s) >= Len(p) /\ SubSeq(s, 1, Len(p)) = p

\* str.split(' - '): the parts between the non-overlapping occurrences of the
\* separator, scanning left to right.  cur is the part being accumulated.
RECURSIVE SplitFrom(_, _)
SplitFrom(s, cur) ==
    IF s = <<>> THEN <<cur>>
    ELSE IF StartsWith(s, Sep)
         THEN <<cur>> \o SplitFrom(SubSeq(s, Len(Sep) + 1, Len(s)), <<>>)
         ELSE SplitFrom(Tail(s), Append(cur, Head(s)))

Split(s) == SplitFrom(s, <<>>)

\* The digits-and-underscores body of an int literal: it starts and ends with
\* a digit and has no two underscores in a row.
ValidIntBody(b) ==
    /\ b # <<>>
    /\ b[1] \in Digits
    /\ b[Len(b)] \in Digits
    /\ \A k \in 1..Len(b) : b[k] \in Digits \cup {"_"}
    /\ \A k \in 1..(Len(b) - 1) : ~(b[k] = "_" /\ b[k + 1] = "_")

RECURSIVE IntBodyVal(_, _)
IntBodyVal(b, acc) ==
    IF b = <<>> THEN acc
    ELSE IF Head(b) = "_" THEN IntBodyVal(Tail(b), acc)
    ELSE IntBodyVal(Tail(b), 10 * acc + DigitVal(Head(b)))

\* int(s) for a str s: surrounding whitespace is ignored, one optional sign,
\* then the digits.  [ok |-> FALSE] stands for ValueError.
IntOfStr(s) ==
    LET u == Strip(s)
        signed == u # <<>> /\ u[1] \in {"+", "-"}
        body == IF signed THEN Tail(u) ELSE u
    IN  IF ValidIntBody(body)
        THEN [ok |-> TRUE,
              v |-> IF signed /\ u[1] = "-" THEN 0 - IntBodyVal(body, 0)
                    ELSE IntBodyVal(body, 0)]
        ELSE [ok |-> FALSE]

RECURSIVE NatToStr(_)
NatToStr(n) ==
    IF n < 10 THEN <<DigitChar(n)>> ELSE Append(NatToStr(n \div 10), DigitChar(n % 10))

Abs(n) == IF n < 0 THEN 0 - n ELSE n

\* int(x) for a finite float x = tenths/10: truncation toward zero.
TruncTenths(n) == IF n >= 0 THEN n \div 10 ELSE 0 - ((0 - n) \div 10)

\* str(x) for the non-str values a spreadsheet cell can hold.
StrOf(x) ==
    CASE x.t = "int" -> (IF x.i < 0 THEN <<"-">> ELSE <<>>) \o NatToStr(Abs(x.i))
      [] x.t = "bool" -> IF x.b THEN <<"T", "r", "u", "e">>
                         ELSE <<"F", "a", "l", "s", "e">>
      [] x.t = "float" /\ x.k = "fin" ->
            (IF x.tenths < 0 THEN <<"-">> ELSE <<>>)
            \o NatToStr(Abs(x.tenths) \div 10) \o <<".">>
            \o <<DigitChar(Abs(x.tenths) % 10)>>
      [] x.t = "float" /\ x.k = "nan" -> <<"n", "a", "n">>
      [] x.t = "float" /\ x.k = "inf" -> <<"i", "n", "f">>
      [] x.t = "float" /\ x.k = "-inf" -> <<"-", "i", "n", "f">>
      [] x.t = "none" -> <<"N", "o", "n", "e">>

(***************************************************************************)
(* omr_scoring.convert_answer_key_letters                                  *)
(***************************************************************************)
PyStr(chars) == [t |-> "str", s |-> chars]
PyInt(n) == [t |-> "int", i |-> n]
PyFloat(n) == [t |-> "float", k |-> "fin", tenths |-> n]
NaN == [t |-> "float", k |-> "nan"]
PosInf == [t |-> "float", k |-> "inf"]
NegInf == [t |-> "float", k |-> "-inf"]
PyBool(b) == [t |-> "bool", b |-> b]
Obj == [t |-> "obj"]

LetterKeys == {<<"a">>, <<"b">>, <<"c">>, <<"d">>, <<"A">>, <<"B">>, <<"C">>, <<"D">>}

letter_map(k) ==
    CASE k \in {<<"a">>, <<"A">>} -> 1
      [] k \in {<<"b">>, <<"B">>} -> 2
      [] k \in {<<"c">>, <<"C">>} -> 3
      [] k \in {<<"d">>, <<"D">>} -> 4

\* The largest choice index the converter accepts.
MaxChoice == 4

Returned(v) == [raised |-> FALSE, v |-> v]
Raised == [raised |-> TRUE]

\* Mutant: the upper end of the range is not checked.
InRangeOrDefault_open(n) == IF 1 <= n THEN n ELSE 1

\* "if 1 <= ans_int <= 4: append(ans_int) else: append(1)"
InRangeOrDefault(n) == IF 1 <= n /\ n <= MaxChoice THEN n ELSE 1

\* int(ans) for an int, bool or float: [ok |-> FALSE] stands for the
\* ValueError of int(nan) and the OverflowError of int(inf).
IntOfNumber(ans) ==
    CASE ans.t = "int" -> [ok |-> TRUE, v |-> ans.i]
      [] ans.t = "bool" -> [ok |-> TRUE, v |-> IF ans.b THEN 1 ELSE 0]
      [] ans.t = "float" /\ ans.k = "fin" -> [ok |-> TRUE, v |-> TruncTenths(ans.tenths)]
      [] OTHER -> [ok |-> FALSE]

\* One iteration of the loop of convert_answer_key_letters: the value appended
\* for the entry ans, or Raised when the iteration raises.
ConvertEntry(ans) ==
    IF ans.t = "str"
    THEN LET ans_clean == Lower(Strip(ans.s))
         IN  IF ans_clean \in LetterKeys
             THEN Returned(letter_map(ans_clean))
             ELSE LET ans_int == IntOfStr(ans_clean)
                  IN  IF ans_int.ok THEN Returned(InRangeOrDefault(ans_int.v))
                      ELSE Returned(1)
    ELSE IF ans.t \in {"int", "bool", "float"}
    THEN LET ans_int == IntOfNumber(ans)
         IN  IF ans_int.ok THEN Returned(InRangeOrDefault(ans_int.v))
             ELSE Raised
    ELSE Returned(1)

\* The whole function: the converted list, or Raised when an entry raises.
convert_answer_key_letters(key) ==
    IF \E k \in 1..Len(key) : ConvertEntry(key[k]).raised
    THEN Raised
    ELSE Returned([k \in 1..Len(key) |-> ConvertEntry(key[k]).v])

(***************************************************************************)
(* omr_scoring.calculate_score                                             *)
(***************************************************************************)
total_expected_questions(S, Q) == S * Q

\* The value padded into a list that is too short.
PadValue == 1

\* Mutant: a short list is left short, only a long one is cut.
ForceLength_no_pad(lst, total) == Slice(lst, 0, total)

\* The list calculate_score works on after "pad or truncate".
ForceLength(lst, total) ==
    IF Len(lst) # total THEN Slice(PadTo(lst, total, PadValue), 0, total) ELSE lst

\* The caller's student_answers object after the call: the padding appends
\* to the argument itself, the truncation rebinds the local name to a copy.
CallerListAfter(lst, total) ==
    IF Len(lst) # total THEN PadTo(lst, total, PadValue) ELSE lst

\* Mutant: negative marking, a wrong answer takes one mark away.
correct_count_negative(student_section, key_section) ==
    LET n == Min(Len(student_section), Len(key_section))
        right == Cardinality({k \in 1..n : student_section[k] = key_section[k]})
    IN  right - (n - right)

\* The number of positions at which zip(student_section, key_section) agrees.
correct_count(student_section, key_section) ==
    Cardinality({k \in 1..Min(Len(student_section), Len(key_section)) :
                    student_section[k] = key_section[k]})

\* Mutant: the segment starts one position late.
start_idx_late(subject_idx, Q) == subject_idx * Q + 1

start_idx(subject_idx, Q) == subject_idx * Q
end_idx(subject_idx, Q) == (subject_idx + 1) * Q

\* The list subject_scores built by the loop over range(num_subjects).
SubjectScores(student, key_numbers, S, Q) ==
    [n \in 1..Max(S, 0) |->
        correct_count(Slice(student, start_idx(n - 1, Q), end_idx(n - 1, Q)),
                      Slice(key_numbers, start_idx(n - 1, Q), end_idx(n - 1, Q)))]

\* Mutant: no padding, the sections are read by index, so that a list shorter
\* than S*Q raises IndexError.
calculate_score_indexed(student, key, S, Q) ==
    LET answer_key_numbers == convert_answer_key_letters(key)
        total == total_expected_questions(S, Q)
    IN  IF answer_key_numbers.raised THEN Raised
        ELSE IF Len(student) < total \/ Len(answer_key_numbers.v) < total THEN Raised
        ELSE LET scores == SubjectScores(Slice(student, 0, total),
                                         Slice(answer_key_numbers.v, 0, total), S, Q)
             IN  [raised |-> FALSE,
                  subject_scores |-> scores,
                  total_score |-> SumSeq(scores),
                  student_answers |-> student,
                  answer_key |-> key]

\* Mutant: the key argument itself is padded to the expected length.
calculate_score_pads_key(student, key, S, Q) ==
    LET answer_key_numbers == convert_answer_key_letters(key)
        total == total_expected_questions(S, Q)
    IN  IF answer_key_numbers.raised THEN Raised
        ELSE LET scores == SubjectScores(ForceLength(student, total),
                                         ForceLength(answer_key_numbers.v, total), S, Q)
             IN  [raised |-> FALSE,
                  subject_scores |-> scores,
                  total_score |-> SumSeq(scores),
                  student_answers |-> CallerListAfter(student, total),
                  answer_key |-> Slice(PadTo(key, total, PyInt(PadValue)), 0, total)]

\* calculate_score(student, key, S, Q): the returned tuple and the caller's
\* two list objects afterwards (the key is converted into a new list, which
\* is the one padded), or Raised when the key conversion raises.
calculate_score(student, key, S, Q) ==
    LET answer_key_numbers == convert_answer_key_letters(key)
        total == total_expected_questions(S, Q)
    IN  IF answer_key_numbers.raised THEN Raised
        ELSE LET scores == SubjectScores(ForceLength(student, total),
                                         ForceLength(answer_key_numbers.v, total), S, Q)
             IN  [raised |-> FALSE,
                  subject_scores |-> scores,
                  total_score |-> SumSeq(scores),
                  student_answers |-> CallerListAfter(student, total),
                  answer_key |-> key]

(***************************************************************************)
(* app.py: flattening of the uploaded answer key                           *)
(***************************************************************************)
\* What pandas' dropna() removes from a column.
IsNull(c) == c.t = "none" \/ (c.t = "float" /\ c.k = "nan")

\* Mutant: the part before the separator is kept instead of the part after it.
CleanCell_first(ans) ==
    IF ans.t = "str"
    THEN LET parts == Split(Strip(ans.s))
         IN  IF Len(parts) >= 2 THEN PyStr(Strip(parts[1])) ELSE PyStr(Strip(ans.s))
    ELSE PyStr(StrOf(ans))

\* "Clean and convert each answer": the string appended to clean_answers.
CleanCell(ans) ==
    IF ans.t = "str"
    THEN LET parts == Split(Strip(ans.s))
         IN  IF Len(parts) >= 2 THEN PyStr(Strip(parts[2])) ELSE PyStr(Strip(ans.s))
    ELSE PyStr(StrOf(ans))

\* df_key[subject_col].dropna().tolist(), cleaned.
CleanColumn(col) ==
    LET subject_answers == SelectSeq(col, LAMBDA c : ~IsNull(c))
    IN  [k \in 1..Len(subject_answers) |-> CleanCell(subject_answers[k])]

RECURSIVE answer_key_flat(_)
answer_key_flat(cols) ==
    IF cols = <<>> THEN <<>>
    ELSE CleanColumn(Head(cols)) \o answer_key_flat(Tail(cols))

(***************************************************************************)
(* omr_bubble_detection: the fill classifier                               *)
(*                                                                         *)
(* A region is [filled |-> nonzero pixels, total |-> pixels].  A fill      *)
(* ratio is kept as the fraction [num, den], den > 0, and compared by      *)
(* cross-multiplication, which agrees with the comparison of the floats    *)
(* filled / total for pixel counts of any real image.                      *)
(***************************************************************************)
Region(filled, total) == [filled |-> filled, total |-> total]

\* "filled_pixels / total_pixels", or 0 for an empty region.
filled_ratio(region) ==
    IF region.total = 0 THEN [num |-> 0, den |-> 1]
    ELSE [num |-> region.filled, den |-> region.total]

RatioLess(a, b) == a.num * b.den < b.num * a.den

\* The thresholds 0.05 and 0.1, in hundredths.
FixedThresholdPercent == 5
GenericThresholdPercent == 10

\* Mutant: a ratio equal to the threshold counts as filled.
AboveThreshold_inclusive(ratio, percent) == 100 * ratio.num >= percent * ratio.den

\* "ratio > 0.05", "ratio > 0.1"
AboveThreshold(ratio, percent) == 100 * ratio.num > percent * ratio.den

\* Mutant: the 0-based index of the last maximum.
argmax_last(ratios) ==
    CHOOSE k \in 0..(Len(ratios) - 1) :
        /\ \A j \in 1..Len(ratios) : ~RatioLess(ratios[k + 1], ratios[j])
        /\ \A j \in (k + 2)..Len(ratios) : RatioLess(ratios[j], ratios[k + 1])

\* np.argmax: the 0-based index of the first maximum.
argmax(ratios) ==
    CHOOSE k \in 0..(Len(ratios) - 1) :
        /\ \A j \in 1..Len(ratios) : ~RatioLess(ratios[k + 1], ratios[j])
        /\ \A j \in 1..k : RatioLess(ratios[j], ratios[k + 1])

\* Mutant: the 0-based index is returned as the answer.
selected_choice_fixed_zero_based(ratios) ==
    IF ratios # <<>> /\ AboveThreshold(ratios[argmax(ratios) + 1], FixedThresholdPercent)
    THEN argmax(ratios)
    ELSE 1

\* Fixed grid: "if bubble_ratios and max(bubble_ratios) > 0.05: argmax + 1
\* else: 1"
selected_choice_fixed(ratios) ==
    IF ratios # <<>> /\ AboveThreshold(ratios[argmax(ratios) + 1], FixedThresholdPercent)
    THEN argmax(ratios) + 1
    ELSE 1

\* Mutant: the generic strategy returns the 0-based index as the answer.
selected_answer_generic_zero_based(ratios) ==
    IF ratios = <<>> THEN 1
    ELSE LET max_ratio_idx == argmax(ratios)
             max_ratio == ratios[max_ratio_idx + 1]
         IN  IF AboveThreshold(max_ratio, GenericThresholdPercent)
             THEN max_ratio_idx
             ELSE 1

\* Generic: "if not choice_ratios: 1"; "if max_ratio > 0.1: max_ratio_idx + 1
\* else: 1"
selected_answer_generic(ratios) ==
    IF ratios = <<>> THEN 1
    ELSE LET max_ratio_idx == argmax(ratios)
             max_ratio == ratios[max_ratio_idx + 1]
         IN  IF AboveThreshold(max_ratio, GenericThresholdPercent)
             THEN max_ratio_idx + 1
             ELSE 1

\* The answer of one question from the regions of its choices.
ClassifyRegions(strat, regions) ==
    LET ratios == [k \in 1..Len(regions) |-> filled_ratio(regions[k])]
    IN  IF strat = "innomatics" THEN selected_choice_fixed(ratios)
        ELSE selected_answer_generic(ratios)

(***************************************************************************)
(* omr_bubble_detection: the binary mask                                   *)
(*                                                                         *)
(* A mask is [height, width, rects, contours]: its nonzero pixels are the  *)
(* union of the rectangles rects (rows r0..r1-1, columns c0..c1-1), and    *)
(* contours is what cv2.findContours returns for it, each contour with its *)
(* bounding box, area and perimeter.                                       *)
(***************************************************************************)
Rect(r0, r1, c0, c1) == [r0 |-> r0, r1 |-> r1, c0 |-> c0, c1 |-> c1]

Nonzero(img, r, c) ==
    \E rect \in img.rects : rect.r0 <= r /\ r < rect.r1 /\ rect.c0 <= c /\ c < rect.c1

\* The indices selected by the numpy slice [a:b] of an axis of length n.
SliceRange(n, a, b) ==
    LET lo == IF a < 0 THEN Max(n + a, 0) ELSE Min(a, n)
        hi == IF b < 0 THEN Max(n + b, 0) ELSE Min(b, n)
    IN  lo..(hi - 1)

\* The region img[rows, cols]: np.count_nonzero and shape[0] * shape[1].
RegionOf(img, rows, cols) ==
    Region(Cardinality({p \in rows \X cols : Nonzero(img, p[1], p[2])}),
           Cardinality(rows) * Cardinality(cols))

(***************************************************************************)
(* omr_bubble_detection.extract_bubbles_for_innomatics_sheet               *)
(***************************************************************************)
InnomaticsSubjects == 5
InnomaticsQuestions == 20
InnomaticsChoices == 4

col_width(width) == width \div 5

\* "question_num = q + 1", "q + 21", ..., "q + 81"
question_num(subject_idx, q) == q + 1 + 20 * subject_idx

rows_per_section(height) == height \div 25

\* The chain "if question_num <= 5 ... elif question_num <= 20"; the initial
\* value -1 stays when no branch is taken.
question_row_y(num, height) ==
    IF num <= 5 THEN (num - 1) * rows_per_section(height)
    ELSE IF num <= 10 THEN (num - 6) * rows_per_section(height) + height \div 4
    ELSE IF num <= 15 THEN (num - 11) * rows_per_section(height) + height \div 2
    ELSE IF num <= 20 THEN (num - 16) * rows_per_section(height) + (3 * height) \div 4
    ELSE -1

row_start(num, height) ==
    Max(0, question_row_y(num, height) - rows_per_section(height) \div 2)
row_end(num, height) ==
    Min(height, question_row_y(num, height) + rows_per_section(height) \div 2)

\* The rows of question_row = subject_column[row_start:row_end, :].
QuestionRows(height, subject_idx, q) ==
    SliceRange(height, row_start(question_num(subject_idx, q), height),
                       row_end(question_num(subject_idx, q), height))

\* The columns of subject_column = thresh_img[:, col_start:col_end].
SubjectCols(width, subject_idx) ==
    SliceRange(width, subject_idx * col_width(width), (subject_idx + 1) * col_width(width))

\* "bubble_width = question_row.shape[1] // 4"
bubble_width(width, subject_idx) == Cardinality(SubjectCols(width, subject_idx)) \div 4

\* The image columns of bubble_region = question_row[:, choice_start:choice_end].
ChoiceCols(width, subject_idx, choice) ==
    LET cols == SubjectCols(width, subject_idx)
        bw == bubble_width(width, subject_idx)
    IN  {subject_idx * col_width(width) + k :
            k \in SliceRange(Cardinality(cols), choice * bw, (choice + 1) * bw)}

\* The regions of the four choices of question q of a subject.
QuestionRegions(img, subject_idx, q) ==
    [n \in 1..4 |->
        RegionOf(img, QuestionRows(img.height, subject_idx, q),
                 ChoiceCols(img.width, subject_idx, n - 1))]

\* The returned list: the answers of subject 0, questions 0..19, then those
\* of subject 1, and so on.
extract_bubbles_for_innomatics_sheet(img) ==
    [n \in 1..(InnomaticsSubjects * InnomaticsQuestions) |->
        ClassifyRegions("innomatics",
            QuestionRegions(img, (n - 1) \div InnomaticsQuestions,
                                 (n - 1) % InnomaticsQuestions))]

(***************************************************************************)
(* omr_bubble_detection.find_bubble_grid                                   *)
(***************************************************************************)
Contour(x, y, w, h, area, perimeter) ==
    [x |-> x, y |-> y, w |-> w, h |-> h, area |-> area, perimeter |-> perimeter]

\* The filter of find_bubble_grid: the area within 0.01% and 1% of the image
\* area, a non-zero perimeter, circularity 4*pi*area/perimeter^2 above 0.3
\* (pi taken as 3.1416), aspect ratio w/h within [0.6, 1.4], w and h above 10.
LooksLikeBubble(img, c) ==
    LET img_area == img.height * img.width
    IN  /\ ~(10000 * c.area < img_area \/ 100 * c.area > img_area)
        /\ c.perimeter # 0
        /\ 125664 * c.area > 3000 * c.perimeter * c.perimeter
        /\ 10 * c.w >= 6 * c.h /\ 10 * c.w <= 14 * c.h
        /\ c.w > 10 /\ c.h > 10

Bubble(c) ==
    [x |-> c.x, y |-> c.y, w |-> c.w, h |-> c.h,
     center_x |-> c.x + c.w \div 2, center_y |-> c.y + c.h \div 2, area |-> c.area]

\* The sort key (center_y, center_x).
RowMajorLess(a, b) ==
    \/ a.center_y < b.center_y
    \/ a.center_y = b.center_y /\ a.center_x < b.center_x

\* list.sort is stable: b goes after the elements that are not greater.
RECURSIVE InsertRowMajor(_, _)
InsertRowMajor(sorted, b) ==
    IF sorted = <<>> THEN <<b>>
    ELSE IF RowMajorLess(b, Head(sorted)) THEN <<b>> \o sorted
    ELSE <<Head(sorted)>> \o InsertRowMajor(Tail(sorted), b)

RECURSIVE SortRowMajor(_)
SortRowMajor(lst) ==
    IF lst = <<>> THEN <<>>
    ELSE InsertRowMajor(SortRowMajor(SubSeq(lst, 1, Len(lst) - 1)), lst[Len(lst)])

\* The list bubble_contours returned by find_bubble_grid.
find_bubble_grid(img) ==
    LET kept == SelectSeq(img.contours, LAMBDA c : LooksLikeBubble(img, c))
    IN  SortRowMajor([k \in 1..Len(kept) |-> Bubble(kept[k])])

(***************************************************************************)
(* omr_bubble_detection.group_bubbles_into_questions                       *)
(***************************************************************************)
row_threshold == 30

RECURSIVE InsertByX(_, _)
InsertByX(sorted, b) ==
    IF sorted = <<>> THEN <<b>>
    ELSE IF b.center_x < Head(sorted).center_x THEN <<b>> \o sorted
    ELSE <<Head(sorted)>> \o InsertByX(Tail(sorted), b)

\* current_question.sort(key=lambda b: b['center_x'])
RECURSIVE SortByX(_)
SortByX(lst) ==
    IF lst = <<>> THEN <<>>
    ELSE InsertByX(SortByX(SubSeq(lst, 1, Len(lst) - 1)), lst[Len(lst)])

\* Mutant: an accepted row is appended in detection order, not sorted by x.
SaveQuestion_unsorted(questions, current_question, choices) ==
    IF Len(current_question) = choices
    THEN Append(questions, current_question)
    ELSE questions

\* Mutant: a row of the wrong size is appended too (and then answered 1).
SaveQuestion_keep_malformed(questions, current_question, choices) ==
    Append(questions, SortByX(current_question))

\* "if len(current_question) == choices_per_question: sort and append"
SaveQuestion(questions, current_question, choices) ==
    IF Len(current_question) = choices
    THEN Append(questions, SortByX(current_question))
    ELSE questions

\* The loop over bubble_contours from position k on, with the loop's locals.
RECURSIVE GroupFrom(_, _, _, _, _, _)
GroupFrom(bubbles, k, current_row_y, current_question, questions, choices) ==
    IF k > Len(bubbles)
    THEN SaveQuestion(questions, current_question, choices)
    ELSE IF Abs(bubbles[k].center_y - current_row_y) <= row_threshold
    THEN GroupFrom(bubbles, k + 1, current_row_y,
                   Append(current_question, bubbles[k]), questions, choices)
    ELSE GroupFrom(bubbles, k + 1, bubbles[k].center_y, <<bubbles[k]>>,
                   SaveQuestion(questions, current_question, choices), choices)

group_bubbles_into_questions(bubbles, choices) ==
    IF bubbles = <<>> THEN <<>>
    ELSE GroupFrom(bubbles, 1, bubbles[1].center_y, <<>>, <<>>, choices)

(***************************************************************************)
(* omr_bubble_detection.extract_bubbles_generic and extract_bubbles        *)
(***************************************************************************)
padding == 2

\* bubble_roi = thresh_img[y1:y2, x1:x2]
bubble_roi(img, bubble) ==
    LET x1 == Max(0, bubble.x - padding)
        y1 == Max(0, bubble.y - padding)
        x2 == Min(img.width, bubble.x + bubble.w + padding)
        y2 == Min(img.height, bubble.y + bubble.h + padding)
    IN  RegionOf(img, SliceRange(img.height, y1, y2), SliceRange(img.width, x1, x2))

\* The answer appended for one element of questions.
QuestionAnswer(img, question_bubbles, choices) ==
    IF Len(question_bubbles) # choices THEN 1
    ELSE ClassifyRegions("generic",
            [k \in 1..Len(question_bubbles) |-> bubble_roi(img, question_bubbles[k])])

\* Mutant: the answers are not padded to the expected number of questions.
PadOrTruncate_no_pad(answers, total) ==
    IF Len(answers) > total THEN Slice(answers, 0, total) ELSE answers

\* "Pad or truncate to expected number of questions"
PadOrTruncate(answers, total) ==
    LET padded == PadTo(answers, total, 1)
    IN  IF Len(padded) > total THEN Slice(padded, 0, total) ELSE padded

\* Mutant: without candidates the answers are 0, not the default 1.
extract_bubbles_generic_zero_default(img, S, Q, choices) ==
    LET total == S * Q
        bubble_contours == find_bubble_grid(img)
    IN  IF Len(bubble_contours) = 0 THEN [k \in 1..total |-> 0]
        ELSE LET questions == group_bubbles_into_questions(bubble_contours, choices)
             IN  PadOrTruncate(
                     [k \in 1..Len(questions) |-> QuestionAnswer(img, questions[k], choices)],
                     total)

extract_bubbles_generic(img, S, Q, choices) ==
    LET total == S * Q
        bubble_contours == find_bubble_grid(img)
    IN  IF Len(bubble_contours) = 0 THEN [k \in 1..total |-> 1]
        ELSE LET questions == group_bubbles_into_questions(bubble_contours, choices)
             IN  PadOrTruncate(
                     [k \in 1..Len(questions) |-> QuestionAnswer(img, questions[k], choices)],
                     total)

\* The strategy extract_bubbles routes to.
StrategyFor(S, Q, choices) ==
    IF S = 5 /\ Q = 20 /\ choices = 4 THEN "innomatics" ELSE "generic"

extract_bubbles(img, S, Q, choices) ==
    IF StrategyFor(S, Q, choices) = "innomatics"
    THEN extract_bubbles_for_innomatics_sheet(img)
    ELSE extract_bubbles_generic(img, S, Q, choices)

(***************************************************************************)
(* Idle values of the variables a specification does not use.              *)
(***************************************************************************)
KeyIdle == df_key = <<>> /\ via_loader = FALSE /\ converted = <<>>
ScoreIdle ==
    /\ student_answers = <<>>
    /\ num_subjects = 0
    /\ questions_per_subject = 0
    /\ subject_scores = <<>>
    /\ total_score = 0
ClassifyIdle == bubble_ratios = <<>> /\ selected_choice = 0
ExtractIdle == thresh_img = None /\ extracted = <<>>
\* The database: whether the directory of DB_FILE can be made (it cannot when
\* DB_FILE is the bare name "omr_results.db", whose dirname is empty), and the
\* results table.
NoTable == [dir_ok |-> FALSE, exists |-> FALSE, columns |-> <<>>, rows |-> <<>>]
AppIdle ==
    /\ answer_file = FALSE
    /\ answer_key_loaded = FALSE
    /\ subject_names = <<>>
    /\ uploaded_files = <<>>
    /\ student_name_input = <<>>
    /\ idx = 0
    /\ all_results = <<>>
    /\ results_table = NoTable
    /\ sheet_log = <<>>
    /\ runs = 0
    /\ results_cache = <<>>
    /\ db_log = <<>>

(***************************************************************************)
(* SpecKey: one uploaded key column, flattened by the app or handed over   *)
(* raw, then converted by convert_answer_key_letters.                      *)
(***************************************************************************)
MaxStrLen == 3
MaxLabelLen == 3
MaxKeyLen == 2
MaxInt == 6

KeyAlphabet == {"a", "D", "e", "3", "5", "0", " ", "-", "+", "_", "."}
LabelAlphabet == {"3", "Q", " ", "-"}
Letters == {"a", "b", "c", "d", "A", "B", "C", "D"}
FloatTenths == {-15, -5, 0, 5, 9, 10, 19, 20, 25, 30, 40, 49, 50, 79}

ListedEntries ==
    {PyStr(<<ch>>) : ch \in Letters \cup {"1", "2", "3", "4"}}
FreeStrings == {PyStr(chars) : chars \in SeqsUpTo(KeyAlphabet, MaxStrLen)}
Labels == SeqsUpTo(LabelAlphabet, MaxLabelLen)
LabelledCell(label, letter) == PyStr(label \o Sep \o <<letter>>)
LabelledCells == {LabelledCell(label, letter) : label \in Labels, letter \in Letters}
NumberCells ==
    {PyInt(n) : n \in -1..MaxInt} \cup {PyFloat(n) : n \in FloatTenths}
    \cup {NaN, PosInf, NegInf, PyBool(TRUE), PyBool(FALSE)}
KeyCells ==
    ListedEntries \cup FreeStrings \cup LabelledCells \cup NumberCells \cup {None, Obj}
FewCells == {PyStr(<<"b">>), PyStr(<<"3", " ", "-", " ", "c">>), PyInt(4), None, NaN}

KeyColumns == {<<c>> : c \in KeyCells} \cup SeqsUpTo(FewCells, MaxKeyLen)

InitKey ==
    /\ pc = "upload"
    /\ df_key \in {<<col>> : col \in KeyColumns}
    /\ answer_key = <<>>
    /\ via_loader = FALSE
    /\ converted = <<>>
    /\ choices_per_question = MaxChoice
    /\ strategy = "none"
    /\ ScoreIdle /\ ClassifyIdle /\ ExtractIdle /\ AppIdle

\* app.py: the cells of the uploaded columns become the session's answer key.
LoadKey ==
    /\ pc = "upload"
    /\ \A n \in 1..Len(df_key) : \A k \in 1..Len(df_key[n]) : df_key[n][k] # Obj
    /\ answer_key' = answer_key_flat(df_key)
    /\ via_loader' = TRUE
    /\ pc' = "key"
    /\ UNCHANGED <<df_key, converted, choices_per_question, strategy,
                   scoreVars, classifyVars, extractVars, appVars>>

\* ans_key.py: the cells are handed over as they are.
PassKey ==
    /\ pc = "upload"
    /\ answer_key' = df_key[1]
    /\ via_loader' = FALSE
    /\ pc' = "key"
    /\ UNCHANGED <<df_key, converted, choices_per_question, strategy,
                   scoreVars, classifyVars, extractVars, appVars>>

\* A call of convert_answer_key_letters(answer_key).
Convert ==
    /\ pc = "key"
    /\ LET r == convert_answer_key_letters(answer_key)
       IN  IF r.raised
           THEN pc' = "raised" /\ converted' = converted
           ELSE pc' = "done" /\ converted' = r.v
    /\ UNCHANGED <<df_key, answer_key, via_loader, choices_per_question, strategy,
                   scoreVars, classifyVars, extractVars, appVars>>

NextKey == LoadKey \/ PassKey \/ Convert

SpecKey == InitKey /\ [][NextKey]_vars

(***************************************************************************)
(* SpecScore: one call of calculate_score.                                 *)
(***************************************************************************)
MaxLen == 5

StudentValues == {1, 2}
ScoreKeyEntries == {PyStr(<<"B">>), PyInt(1)}
Layouts == {<<1, 2>>, <<2, 1>>, <<2, 2>>}

ExampleStudent == <<1, 2, 3, 1, 1, 1>>
ExampleKey == <<PyInt(1), PyInt(1), PyInt(3), PyInt(1), PyInt(2), PyInt(1)>>

InitScore ==
    /\ pc = "call"
    /\ \/ /\ student_answers \in SeqsUpTo(StudentValues, MaxLen)
          /\ answer_key \in SeqsUpTo(ScoreKeyEntries, MaxLen)
          /\ \E layout \in Layouts :
                /\ num_subjects = layout[1]
                /\ questions_per_subject = layout[2]
       \/ /\ student_answers = ExampleStudent
          /\ answer_key = ExampleKey
          /\ num_subjects = 2
          /\ questions_per_subject = 3
    /\ subject_scores = <<>>
    /\ total_score = 0
    /\ choices_per_question = MaxChoice
    /\ strategy = "none"
    /\ KeyIdle /\ ClassifyIdle /\ ExtractIdle /\ AppIdle

\* A call of calculate_score(student_answers, answer_key, num_subjects,
\* questions_per_subject).
CalculateScore ==
    /\ pc = "call"
    /\ LET r == calculate_score(student_answers, answer_key, num_subjects,
                                questions_per_subject)
       IN  IF r.raised
           THEN /\ pc' = "raised"
                /\ UNCHANGED <<student_answers, answer_key, subject_scores, total_score>>
           ELSE /\ pc' = "done"
                /\ student_answers' = r.student_answers
                /\ answer_key' = r.answer_key
                /\ subject_scores' = r.subject_scores
                /\ total_score' = r.total_score
    /\ UNCHANGED <<num_subjects, questions_per_subject,
                   choices_per_question, strategy, keyVars, classifyVars, extractVars, appVars>>

NextScore == CalculateScore

SpecScore == InitScore /\ [][NextScore]_vars

(***************************************************************************)
(* Claims about calculate_score (SpecScore).                               *)
(***************************************************************************)
\* student'[i] and key'[i] of the claim, i counted from 1: the entry, or 1
\* beyond the end of the list.
StudentAt(student, i) == IF i <= Len(student) THEN student[i] ELSE 1
KeyAt(key, i) == IF i <= Len(key) THEN ConvertEntry(key[i]).v ELSE 1

MatchesInSegment(student, key, n, Q) ==
    Cardinality({i \in ((n - 1) * Q + 1)..(n * Q) :
                    StudentAt(student, i) = KeyAt(key, i)})

\* C2: calculate_score returns per_subject with per_subject[s] the number of
\* positions of segment s at which the student list and the canonicalised
\* key, each truncated to S*Q entries or right-padded with 1, agree; the
\* literal example gives per_subject = [2, 2] and total = 4.
C2_PerSubjectCounts ==
    [][pc = "call" =>
        /\ pc' = "done"
        /\ subject_scores' =
              [n \in 1..num_subjects |->
                  MatchesInSegment(student_answers, answer_key, n, questions_per_subject)]
        /\ (student_answers = ExampleStudent /\ answer_key = ExampleKey
              /\ num_subjects = 2 /\ questions_per_subject = 3)
           => (subject_scores' = <<2, 2>> /\ total_score' = 4)]_vars

C2_Witness ==
    /\ pc = "done"
    /\ answer_key = ExampleKey
    /\ student_answers = ExampleStudent
    /\ subject_scores = <<2, 2>>
    /\ total_score = 4

\* C3: the total is the sum of the per-subject counts, every per-subject
\* count is in 0..questions_per_subject and the total is in
\* 0..num_subjects*questions_per_subject.
C3_TotalIsSumInRange ==
    pc = "done" =>
        /\ \A n \in 1..Len(subject_scores) :
              subject_scores[n] \in 0..questions_per_subject
        /\ total_score \in 0..(num_subjects * questions_per_subject)
        /\ \E partial \in [0..Len(subject_scores) -> 0..(num_subjects * questions_per_subject)] :
              /\ partial[0] = 0
              /\ \A n \in 1..Len(subject_scores) :
                    partial[n] = partial[n - 1] + subject_scores[n]
              /\ total_score = partial[Len(subject_scores)]

C3_Witness ==
    /\ pc = "done"
    /\ num_subjects = 2
    /\ subject_scores = <<1, 2>>
    /\ total_score = 3

\* C4: calculate_score never raises on a length mismatch; for student and key
\* lists of any lengths it returns exactly num_subjects per-subject entries.
C4_NoRaiseOnLengthMismatch ==
    /\ pc # "raised"
    /\ pc = "done" => Len(subject_scores) = num_subjects

C4_Witness ==
    /\ pc = "done"
    /\ Len(answer_key) = 0
    /\ Len(student_answers) > num_subjects * questions_per_subject
    /\ Len(subject_scores) = num_subjects

(***************************************************************************)
(* Claims about key normalisation (SpecKey).                               *)
(***************************************************************************)
\* The fixed table of the specification.
CanonicalLetter(ch) ==
    CASE ch \in {"a", "A"} -> 1 [] ch \in {"b", "B"} -> 2
      [] ch \in {"c", "C"} -> 3 [] ch \in {"d", "D"} -> 4

ListedValue(e) ==
    IF e.s[1] \in Letters THEN CanonicalLetter(e.s[1]) ELSE DigitVal(e.s[1])

\* The run converted the single raw entry e without the app's flattening.
DirectSingle == ~via_loader /\ pc \in {"done", "raised"} /\ Len(answer_key) = 1

NonFinite(e) == e.t = "float" /\ e.k # "fin"

\* A number whose value is one of the integers 1..4.
IntegerInRange(e) ==
    \/ e.t = "int" /\ e.i \in 1..4
    \/ e.t = "bool" /\ e.b
    \/ e.t = "float" /\ e.k = "fin" /\ e.tenths \in {10, 20, 30, 40}

\* C5 as stated: the twelve listed entries map per the table and every other
\* string, non-integer number, None or other scalar maps to 1.
C5_OtherEntriesMapToOne ==
    (DirectSingle /\ pc = "done") =>
        LET e == answer_key[1]
        IN  IF e \in ListedEntries THEN converted = <<ListedValue(e)>>
            ELSE IF IntegerInRange(e) THEN TRUE
            ELSE converted = <<1>>

\* u is a decimal literal of the digit k in 1..4: an optional "+", then zeros
\* and single underscores between digits, then the digit k.
DenotesDigit(u, k) ==
    \E body \in {u} \cup (IF u # <<>> /\ u[1] = "+" THEN {Tail(u)} ELSE {}) :
        /\ body # <<>>
        /\ body[Len(body)] = DigitChar(k)
        /\ \A n \in 1..(Len(body) - 1) : body[n] \in {"0", "_"}
        /\ body[1] # "_"
        /\ \A n \in 1..(Len(body) - 1) : ~(body[n] = "_" /\ body[n + 1] = "_")

\* The value the amended C5 gives to a string, a finite number, None or
\* another object.
AmendedValue(e) ==
    CASE e.t = "str" ->
            LET u == Lower(Strip(e.s))
            IN  IF Len(u) = 1 /\ u[1] \in {"a", "b", "c", "d"} THEN CanonicalLetter(u[1])
                ELSE IF \E k \in 1..4 : DenotesDigit(u, k)
                     THEN CHOOSE k \in 1..4 : DenotesDigit(u, k)
                     ELSE 1
      [] e.t = "int" -> IF e.i \in 1..4 THEN e.i ELSE 1
      [] e.t = "bool" -> 1
      [] e.t = "float" ->
            IF \E k \in 1..4 : 10 * k <= e.tenths /\ e.tenths < 10 * (k + 1)
            THEN CHOOSE k \in 1..4 : 10 * k <= e.tenths /\ e.tenths < 10 * (k + 1)
            ELSE 1
      [] OTHER -> 1

\* C5 (amended): the twelve listed entries map per the table; a string is
\* first stripped of surrounding blanks and lowercased, and then maps to the
\* letter's index, or to the integer in 1..4 it denotes as a decimal literal
\* (sign, leading zeros and underscores allowed), or else to 1; an int, bool
\* or finite float maps to its integer part when that is in 1..4 and else to
\* 1; None and other objects map to 1; a non-finite float is not mapped, the
\* call raises.
C5_EntryMapping ==
    DirectSingle =>
        LET e == answer_key[1]
        IN  IF NonFinite(e) THEN pc = "raised"
            ELSE /\ pc = "done"
                 /\ converted = <<AmendedValue(e)>>
                 /\ e \in ListedEntries => converted = <<ListedValue(e)>>

C5_Witness ==
    /\ DirectSingle
    /\ pc = "done"
    /\ answer_key = <<PyFloat(25)>>
    /\ converted = <<2>>

\* C6: key normalisation never fails: for every input sequence, whatever the
\* type or value of its entries, the converter returns a sequence of the same
\* length with every element in 1..4.
C6_NeverFails ==
    /\ pc # "raised"
    /\ pc = "done" =>
          /\ Len(converted) = Len(answer_key)
          /\ \A n \in 1..Len(converted) : converted[n] \in 1..4

\* The label of a cell "<label> - <letter>" is read as a label: it has a
\* non-blank character and the separator written after it is the first
\* " - " of the stripped cell.
PlainLabel(label) ==
    LET stripped == LStrip(label) \o <<" ", "-">>
    IN  /\ LStrip(label) # <<>>
        /\ \A n \in 1..Len(stripped) : ~StartsWith(SubSeq(stripped, n, Len(stripped)), Sep)

\* The run loaded and converted a single cell "<label> - <letter>".
LoadedLabelledCell ==
    /\ pc = "done"
    /\ via_loader
    /\ Len(df_key[1]) = 1
    /\ df_key[1][1].t = "str"
    /\ LET chars == df_key[1][1].s
       IN  /\ Len(chars) > Len(Sep)
           /\ SubSeq(chars, Len(chars) - Len(Sep), Len(chars) - 1) = Sep
           /\ chars[Len(chars)] \in Letters

LabelOfCell == SubSeq(df_key[1][1].s, 1, Len(df_key[1][1].s) - Len(Sep) - 1)
LetterOfCell == df_key[1][1].s[Len(df_key[1][1].s)]

\* C7 as stated: for every (non-blank) label and every letter, the cell
\* "<label> - <letter>" is normalised like the bare letter.
C7_EveryLabel ==
    (LoadedLabelledCell /\ LStrip(LabelOfCell) # <<>>)
        => converted = <<CanonicalLetter(LetterOfCell)>>

\* C7 (amended): for every label that has a non-blank character and in which
\* " - " does not occur before the separator that ends it, and every letter
\* a..d in either case, the cell "<label> - <letter>" passed through the key
\* loading and the converter gives the canonical value of the bare letter.
C7_PlainLabel ==
    (LoadedLabelledCell /\ PlainLabel(LabelOfCell))
        => converted = <<CanonicalLetter(LetterOfCell)>>

C7_Witness ==
    /\ pc = "done"
    /\ via_loader
    /\ df_key = <<<<PyStr(<<"3", " ", "-", " ", "c">>)>>>>
    /\ converted = <<3>>

\* The layouts the claim is stated for.
DeclaredChoices == {4, 5}

\* The value of a numeric entry: an int, a float holding an integer value or
\* a string of digits.
IsNumericEntry(e) ==
    \/ e.t = "int"
    \/ e.t = "float" /\ e.k = "fin" /\ e.tenths % 10 = 0
    \/ e.t = "str" /\ e.s # <<>> /\ \A n \in 1..Len(e.s) : e.s[n] \in Digits

NumericValue(e) ==
    CASE e.t = "int" -> e.i
      [] e.t = "float" -> e.tenths \div 10
      [] e.t = "str" -> IntBodyVal(e.s, 0)

\* C8: every numeric key entry whose value lies in [1, choices_per_question]
\* reaches the scorer as that integer, passed directly or through the key
\* loading, for choices_per_question = 4 and for other values.
C8_NumericPassThrough ==
    \A choices \in DeclaredChoices :
        (pc = "done" /\ Len(df_key[1]) = 1 /\ IsNumericEntry(df_key[1][1])
            /\ NumericValue(df_key[1][1]) \in 1..choices)
            => converted = <<NumericValue(df_key[1][1])>>

(***************************************************************************)
(* SpecClassify: the fill classifier on the choice regions of one          *)
(* question, in either strategy.                                           *)
(***************************************************************************)
\* Regions of 100 pixels around the two thresholds, regions of 50 pixels,
\* and the empty region.
ChoiceRegions ==
    {Region(f, 100) : f \in {0, 1, 2, 3, 5, 6, 8, 10, 11, 100}}
    \cup {Region(3, 50), Region(5, 50), Region(0, 0)}

GenericChoiceCounts == {2, 3, 4}

InitClassify ==
    /\ pc = "question"
    /\ \/ /\ strategy = "innomatics"
          /\ choices_per_question = InnomaticsChoices
       \/ /\ strategy = "generic"
          /\ choices_per_question \in GenericChoiceCounts
    /\ bubble_ratios \in [1..choices_per_question -> ChoiceRegions]
    /\ selected_choice = 0
    /\ answer_key = <<>>
    /\ KeyIdle /\ ScoreIdle /\ ExtractIdle /\ AppIdle

\* The classification of one question.
Classify ==
    /\ pc = "question"
    /\ selected_choice' = ClassifyRegions(strategy, bubble_ratios)
    /\ pc' = "done"
    /\ UNCHANGED <<bubble_ratios, strategy, choices_per_question, answer_key,
                   keyVars, scoreVars, extractVars, appVars>>

NextClassify == Classify

SpecClassify == InitClassify /\ [][NextClassify]_vars

(***************************************************************************)
(* Claims about the fill classifier (SpecClassify).                        *)
(***************************************************************************)
ThresholdPercent == IF strategy = "innomatics" THEN 5 ELSE 10

\* fraction(a) < fraction(b), an empty region having the fraction 0.
FractionLess(a, b) ==
    IF b.total = 0 THEN FALSE
    ELSE IF a.total = 0 THEN b.filled > 0
    ELSE a.filled * b.total < b.filled * a.total

IsMaximum(regions, k) == \A j \in 1..Len(regions) : ~FractionLess(regions[k], regions[j])

FractionAbove(region, percent) ==
    region.total > 0 /\ 100 * region.filled > percent * region.total

\* C9: the selected answer is the 1-based index of the maximum fraction if
\* that maximum is strictly greater than the threshold (0.05 fixed grid, 0.10
\* generic) and 1 otherwise; [0.02,0.08,0.01,0.00] at 0.05 gives 2 and
\* [0.02,0.03,0.01,0.00] gives 1.
C9_FillRule ==
    pc = "done" =>
        /\ IF \E k \in 1..Len(bubble_ratios) : FractionAbove(bubble_ratios[k], ThresholdPercent)
           THEN /\ selected_choice \in 1..Len(bubble_ratios)
                /\ IsMaximum(bubble_ratios, selected_choice)
           ELSE selected_choice = 1
        /\ (strategy = "innomatics"
              /\ bubble_ratios = <<Region(2, 100), Region(8, 100), Region(1, 100), Region(0, 100)>>)
           => selected_choice = 2
        /\ (strategy = "innomatics"
              /\ bubble_ratios = <<Region(2, 100), Region(3, 100), Region(1, 100), Region(0, 100)>>)
           => selected_choice = 1

C9_Witness ==
    /\ pc = "done"
    /\ strategy = "innomatics"
    /\ bubble_ratios = <<Region(2, 100), Region(8, 100), Region(1, 100), Region(0, 100)>>
    /\ selected_choice = 2

\* The k-th region is entirely foreground and the others have zero fill.
OnlyFilled(regions, k) ==
    /\ regions[k].total > 0
    /\ regions[k].filled = regions[k].total
    /\ \A j \in 1..Len(regions) : j # k => regions[j].filled = 0

\* C10: for every position k, a question whose k-th choice region is entirely
\* foreground and whose other regions have zero fill is classified as k, in
\* both strategies.
C10_PositionInvariance ==
    pc = "done" =>
        \A k \in 1..Len(bubble_ratios) :
            OnlyFilled(bubble_ratios, k) => selected_choice = k

C10_Witness ==
    /\ pc = "done"
    /\ strategy = "generic"
    /\ Len(bubble_ratios) = 4
    /\ OnlyFilled(bubble_ratios, 4)
    /\ selected_choice = 4

(***************************************************************************)
(* SpecExtract: one call of extract_bubbles on a mask.                     *)
(***************************************************************************)
\* Masks without contours, of several sizes (a mask has at least one row and
\* one column): blank, all foreground, one
\* choice column of one subject band marked over the whole height, or marked
\* over the top tenth only.
GridHeights == {1, 10, 100, 1200}
GridWidths == {1, 7, 20, 40}

ChoiceStripe(height, width, subject_idx, choice, rows) ==
    Rect(0, rows,
         subject_idx * (width \div 5) + (choice - 1) * ((width \div 5) \div 4),
         subject_idx * (width \div 5) + choice * ((width \div 5) \div 4))

GridRects(height, width) ==
    {{}, {Rect(0, height, 0, width)}}
    \cup {{ChoiceStripe(height, width, s, k, height)} : s \in {0, 3}, k \in 1..4}
    \cup {{ChoiceStripe(height, width, 0, k, height \div 10)} : k \in {2, 4}}

GridMasks ==
    UNION {{[height |-> h, width |-> w, rects |-> r, contours |-> <<>>] :
                r \in GridRects(h, w)} : h \in GridHeights, w \in GridWidths}

\* Masks with contours: a 200 x 200 image with two rows of up to three
\* bubbles, an optional stray bubble 25 px below the first row, and optional
\* contours that are no bubbles; in each row at most one bubble is inked.
ContourImageSize == 200
RowY == <<20, 60>>
BubbleX(j) == 20 + 30 * (j - 1)
BubbleSize == 12

RowBubble(r, j) == Contour(BubbleX(j), RowY[r], BubbleSize, BubbleSize, 100, 38)
StrayBubble == Contour(150, 45, BubbleSize, BubbleSize, 100, 38)
NoBubbles == <<Contour(100, 120, 5, 5, 20, 16), Contour(20, 150, 40, 12, 300, 104)>>

InkOn(c) == Rect(c.y - padding, c.y + c.h + padding, c.x - padding, c.x + c.w + padding)

RowCounts == 0..3
InkChoices == 0..3

ContourMask(n1, n2, stray, noise, m1, m2) ==
    [height |-> ContourImageSize, width |-> ContourImageSize,
     rects |-> (IF m1 > 0 THEN {InkOn(RowBubble(1, m1))} ELSE {})
               \cup (IF m2 > 0 THEN {InkOn(RowBubble(2, m2))} ELSE {}),
     contours |-> [j \in 1..n2 |-> RowBubble(2, n2 + 1 - j)]
                  \o (IF stray THEN <<StrayBubble>> ELSE <<>>)
                  \o [j \in 1..n1 |-> RowBubble(1, n1 + 1 - j)]
                  \o (IF noise THEN NoBubbles ELSE <<>>)]

ContourMasks ==
    {ContourMask(n1, n2, stray, noise, m1, m2) :
        n1 \in RowCounts, n2 \in RowCounts, stray \in BOOLEAN, noise \in BOOLEAN,
        m1 \in InkChoices, m2 \in InkChoices}

FewContourMasks ==
    {ContourMask(3, 3, stray, TRUE, m1, 2) : stray \in BOOLEAN, m1 \in InkChoices}

\* Masks whose first row is skewed: its bubbles, left to right, are at
\* different heights, so the (center_y, center_x) order is not the x order;
\* a straight second row of 0, 2 or 3 bubbles follows.
SkewedY == <<24, 20, 22>>
SkewedBubble(j) == Contour(BubbleX(j), SkewedY[j], BubbleSize, BubbleSize, 100, 38)

SkewedMask(n1, n2, m1, m2) ==
    [height |-> ContourImageSize, width |-> ContourImageSize,
     rects |-> (IF m1 > 0 THEN {InkOn(SkewedBubble(m1))} ELSE {})
               \cup (IF m2 > 0 THEN {InkOn(RowBubble(2, m2))} ELSE {}),
     contours |-> [j \in 1..n1 |-> SkewedBubble(j)] \o [j \in 1..n2 |-> RowBubble(2, j)]]

SkewedMasks ==
    {SkewedMask(n1, n2, m1, m2) :
        n1 \in {2, 3}, n2 \in {0, 2, 3}, m1 \in InkChoices, m2 \in {0, 2}}

\* Layouts (num_subjects, questions_per_subject, choices_per_question).
InnomaticsLayout == <<5, 20, 4>>
GenericLayouts == {<<1, 1, 3>>, <<1, 2, 3>>, <<2, 2, 2>>, <<1, 3, 2>>, <<2, 0, 4>>, <<1, 2, 4>>}

InitExtract ==
    /\ pc = "call"
    /\ \/ /\ thresh_img \in GridMasks \cup FewContourMasks
          /\ num_subjects = InnomaticsLayout[1]
          /\ questions_per_subject = InnomaticsLayout[2]
          /\ choices_per_question = InnomaticsLayout[3]
       \/ /\ thresh_img \in GridMasks \cup ContourMasks \cup SkewedMasks
          /\ \E layout \in GenericLayouts :
                /\ num_subjects = layout[1]
                /\ questions_per_subject = layout[2]
                /\ choices_per_question = layout[3]
    /\ extracted = <<>>
    /\ strategy = "none"
    /\ student_answers = <<>>
    /\ subject_scores = <<>>
    /\ total_score = 0
    /\ answer_key = <<>>
    /\ KeyIdle /\ ClassifyIdle /\ AppIdle

\* A call of extract_bubbles(thresh_img, num_subjects, questions_per_subject,
\* choices_per_question).
ExtractBubbles ==
    /\ pc = "call"
    /\ strategy' = StrategyFor(num_subjects, questions_per_subject, choices_per_question)
    /\ extracted' = extract_bubbles(thresh_img, num_subjects, questions_per_subject,
                                    choices_per_question)
    /\ pc' = "done"
    /\ UNCHANGED <<thresh_img, num_subjects, questions_per_subject, choices_per_question,
                   student_answers, subject_scores, total_score, answer_key,
                   keyVars, classifyVars, appVars>>

NextExtract == ExtractBubbles

SpecExtract == InitExtract /\ [][NextExtract]_vars

(***************************************************************************)
(* Claims about extract_bubbles (SpecExtract).                             *)
(***************************************************************************)
DetectedQuestions ==
    group_bubbles_into_questions(find_bubble_grid(thresh_img), choices_per_question)

\* C1: for every mask and every layout extract_bubbles returns exactly
\* num_subjects * questions_per_subject answers, whichever strategy is chosen
\* and however many bubbles are detected.
C1_AnswerCount ==
    pc = "done" => Len(extracted) = num_subjects * questions_per_subject

C1_Witness ==
    /\ pc = "done"
    /\ strategy = "generic"
    /\ Len(DetectedQuestions) = 1
    /\ num_subjects * questions_per_subject = 4
    /\ Len(extracted) = 4

\* No region of the question has a foreground fraction above the threshold:
\* the question is blank, faintly marked (ambiguous) or has empty regions.
NothingClear(regions, percent) ==
    \A k \in 1..Len(regions) : ~FractionAbove(regions[k], percent)

\* The regions the fixed grid samples for the n-th answer, n in 1..100.
FixedRegions(n) ==
    QuestionRegions(thresh_img, (n - 1) \div InnomaticsQuestions,
                                (n - 1) % InnomaticsQuestions)

\* The regions the generic strategy samples for the k-th detected question.
GenericRegions(k) ==
    [j \in 1..Len(DetectedQuestions[k]) |-> bubble_roi(thresh_img, DetectedQuestions[k][j])]

\* C11: every answer returned by extract_bubbles is an integer in
\* 1..choices_per_question, and a question in which no choice region has a
\* fraction above the threshold (blank, ambiguous faint marks, empty regions
\* of a tiny image) is answered 1; the call always returns.
C11_AnswersDefined ==
    pc = "done" =>
        /\ \A n \in 1..Len(extracted) : extracted[n] \in 1..choices_per_question
        /\ strategy = "innomatics" =>
              \A n \in 1..Len(extracted) :
                  NothingClear(FixedRegions(n), FixedThresholdPercent) => extracted[n] = 1
        /\ strategy = "generic" =>
              \A k \in 1..Min(Len(DetectedQuestions), Len(extracted)) :
                  NothingClear(GenericRegions(k), GenericThresholdPercent) => extracted[k] = 1

\* A mask of one row, all foreground: every sampled region is empty and every
\* answer is 1.
C11_Witness ==
    /\ pc = "done"
    /\ strategy = "innomatics"
    /\ thresh_img.height = 1
    /\ thresh_img.rects # {}
    /\ \A n \in 1..Len(extracted) :
          /\ \A k \in 1..4 : FixedRegions(n)[k].total = 0
          /\ extracted[n] = 1

\* "target_height = 1200": the height of every mask preprocess_omr returns.
target_height == 1200

\* The rows of the K-th vertical quartile of a band of the given height.
QuartileRows(height, K) ==
    {r \in 0..(height - 1) : (K - 1) * height <= 4 * r /\ 4 * r < K * height}

\* The quartile ceil(q/5) of the question index q in 1..20.
QuartileOf(q) == (q - 1) \div 5 + 1

\* The rows sampled for question index q (1..20) of a subject band.
SampledRows(subject_idx, q) == QuestionRows(thresh_img.height, subject_idx, q - 1)

\* C12: in the fixed-grid strategy, for each of the 5 subject bands and each
\* question index q in 1..20, the sampled row slice lies in vertical quartile
\* ceil(q/5) of the band height.
C12_RowsInQuartile ==
    (pc = "done" /\ strategy = "innomatics" /\ thresh_img.height = target_height) =>
        \A subject_idx \in 0..(InnomaticsSubjects - 1), q \in 1..InnomaticsQuestions :
            SampledRows(subject_idx, q) \subseteq QuartileRows(thresh_img.height, QuartileOf(q))

\* The vertical position computed for question index q of a subject band.
RowY_of(subject_idx, q) == question_row_y(question_num(subject_idx, q - 1), thresh_img.height)

\* C13: in the fixed-grid strategy the step between consecutive questions of
\* one quartile is the quartile height divided by 5 (height/20), and the five
\* row slices of a quartile together span that quartile.
C13_EvenSubdivision ==
    (pc = "done" /\ strategy = "innomatics" /\ thresh_img.height = target_height) =>
        \A subject_idx \in 0..(InnomaticsSubjects - 1) :
            /\ \A q \in 1..(InnomaticsQuestions - 1) :
                  QuartileOf(q + 1) = QuartileOf(q) =>
                      RowY_of(subject_idx, q + 1) - RowY_of(subject_idx, q)
                          = thresh_img.height \div 20
            /\ \A K \in 1..4 :
                  UNION {SampledRows(subject_idx, q) : q \in (5 * K - 4)..(5 * K)}
                      = QuartileRows(thresh_img.height, K)

\* The candidates find_bubble_grid hands to the grouping.
Candidates == find_bubble_grid(thresh_img)

Elements(seq) == {seq[k] : k \in 1..Len(seq)}

\* The bubble of a group that comes first in (center_y, center_x) order: the
\* one that started the row.
Starter(group) ==
    CHOOSE b \in Elements(group) : \A c \in Elements(group) : ~RowMajorLess(c, b)

\* C14: group_bubbles_into_questions, given the candidates sorted by
\* (center_y, center_x), emits only groups of exactly choices_per_question
\* candidates, each sorted by ascending center_x, every bubble within 30 px
\* (center_y) of the bubble that started its row, no bubble in two groups,
\* and the groups in top-to-bottom order.
C14_GroupsWellFormed ==
    (pc = "done" /\ strategy = "generic") =>
        LET groups == DetectedQuestions
        IN  /\ \A g \in 1..Len(groups) :
                  /\ Len(groups[g]) = choices_per_question
                  /\ Elements(groups[g]) \subseteq Elements(Candidates)
                  /\ Cardinality(Elements(groups[g])) = Len(groups[g])
                  /\ \A j \in 1..(Len(groups[g]) - 1) :
                        groups[g][j].center_x <= groups[g][j + 1].center_x
                  /\ \A b \in Elements(groups[g]) :
                        Abs(b.center_y - Starter(groups[g]).center_y) <= 30
            /\ \A g \in 1..Len(groups), h \in 1..Len(groups) :
                  g < h =>
                      /\ Elements(groups[g]) \cap Elements(groups[h]) = {}
                      /\ \A b \in Elements(groups[g]), c \in Elements(groups[h]) :
                            b.center_y < c.center_y

\* Two rows were accepted and the first one was reordered by x.
C14_Witness ==
    /\ pc = "done"
    /\ strategy = "generic"
    /\ choices_per_question = 3
    /\ Len(DetectedQuestions) = 2
    /\ DetectedQuestions[1] # SubSeq(Candidates, 1, 3)
    /\ Elements(DetectedQuestions[1]) = Elements(SubSeq(Candidates, 1, 3))

\* The rows of the sorted candidates, of any size: a candidate more than 30
\* px (center_y) below the candidate that started the current row starts the
\* next row.
RECURSIVE SplitRows(_, _, _)
SplitRows(bubbles, k, rows) ==
    IF k > Len(bubbles) THEN rows
    ELSE IF rows # <<>>
            /\ Abs(bubbles[k].center_y - rows[Len(rows)][1].center_y) <= 30
    THEN SplitRows(bubbles, k + 1,
                   [rows EXCEPT ![Len(rows)] = Append(@, bubbles[k])])
    ELSE SplitRows(bubbles, k + 1, Append(rows, <<bubbles[k]>>))

DetectedRows == SplitRows(Candidates, 1, <<>>)

\* C15: in the generic strategy a detected row whose bubble count differs from
\* choices_per_question is answered with the default 1 at that question's
\* position.
C15_MalformedRowDefaults ==
    (pc = "done" /\ strategy = "generic") =>
        \A i \in 1..Min(Len(DetectedRows), Len(extracted)) :
            Len(DetectedRows[i]) # choices_per_question => extracted[i] = 1

\* The rows with exactly choices_per_question candidates, top to bottom.
AcceptedRows == SelectSeq(DetectedRows, LAMBDA row : Len(row) = choices_per_question)

\* The regions of a row's bubbles, left to right.
RowRegions(row) ==
    [j \in 1..Len(row) |->
        bubble_roi(thresh_img,
            CHOOSE b \in Elements(row) :
                Cardinality({c \in Elements(row) : c.center_x < b.center_x}) = j - 1)]

\* a is the classification of the regions under the 10% rule.
IsRowAnswer(regions, a) ==
    IF NothingClear(regions, GenericThresholdPercent) THEN a = 1
    ELSE /\ a \in 1..Len(regions)
         /\ IsMaximum(regions, a)

\* C16: in the generic strategy a row with the wrong candidate count leaves no
\* entry: the i-th answer is the classification of the i-th accepted row, top
\* to bottom, and every position after the last accepted row holds the
\* default 1; answers beyond num_subjects*questions_per_subject are dropped.
C16_DroppedRowsShift ==
    (pc = "done" /\ strategy = "generic") =>
        /\ Len(extracted) = num_subjects * questions_per_subject
        /\ \A i \in 1..Len(extracted) :
              IF i <= Len(AcceptedRows)
              THEN IsRowAnswer(RowRegions(AcceptedRows[i]), extracted[i])
              ELSE extracted[i] = 1

\* The first row has two bubbles of three and is dropped; the answer 2 of the
\* second row is returned at the first position.
C16_Witness ==
    /\ pc = "done"
    /\ strategy = "generic"
    /\ Len(DetectedRows) = 2
    /\ Len(DetectedRows[1]) # choices_per_question
    /\ Len(AcceptedRows) = 1
    /\ extracted = <<2, 1>>

\* C17: in the generic strategy, when no bubble candidate is detected, the
\* call returns num_subjects*questions_per_subject entries all equal to 1.
C17_NoCandidatesAllDefault ==
    (pc = "done" /\ strategy = "generic" /\ Candidates = <<>>) =>
        /\ Len(extracted) = num_subjects * questions_per_subject
        /\ \A n \in 1..Len(extracted) : extracted[n] = 1

\* The mask has ink and contours, none of which passes the bubble filter.
C17_Witness ==
    /\ pc = "done"
    /\ strategy = "generic"
    /\ thresh_img.contours # <<>>
    /\ thresh_img.rects # {}
    /\ Candidates = <<>>
    /\ extracted = <<1, 1, 1, 1>>

(***************************************************************************)
(* omr_preprocessing.preprocess_omr                                        *)
(*                                                                         *)
(* An uploaded file is [bytes, pos]: its content and its read position     *)
(* ("start" or "end").  The content is [decodable, original_height,        *)
(* original_width, rects, contours]: whether cv2.imdecode accepts it, the  *)
(* decoded size, and the foreground and the external contours that the     *)
(* OpenCV chain (resize, CLAHE, blur, Otsu, closing) gives for it.         *)
(***************************************************************************)
\* "aspect_ratio = original_width / original_height" is a double, and so is
\* target_height * aspect_ratio.  Among the sizes the specifications draw,
\* these (width, height) are the ones whose exact quotient is an integer n
\* while the double product is just below n, so that int() gives n - 1
\* (1200 * (11 / 15) is 879.9999999999999).  For the other sizes drawn int()
\* of the double product is the floor of the exact quotient.
FloatShortfall == {<<11, 15>>, <<11, 30>>, <<22, 15>>, <<22, 30>>}

\* "target_width = int(target_height * aspect_ratio)"
target_width(original_width, original_height) ==
    LET exact == (target_height * original_width) \div original_height
    IN  IF <<original_width, original_height>> \in FloatShortfall
        THEN exact - 1 ELSE exact

\* Mutant: the file is not rewound before it is read.
seek_ignored(file, offset) == file

\* uploaded_file.seek(0)
seek(file, offset) == [file EXCEPT !.pos = IF offset = 0 THEN "start" ELSE "end"]

\* Mutant: bytes that do not decode give a blank mask instead of an error.
preprocess_omr_no_check(file) ==
    IF file.pos # "start" THEN [raised |-> TRUE]
    ELSE IF ~file.bytes.decodable
    THEN [raised |-> FALSE,
          thresh |-> [height |-> target_height, width |-> target_height,
                      rects |-> {}, contours |-> <<>>]]
    ELSE [raised |-> FALSE,
          thresh |-> [height |-> target_height,
                      width |-> target_width(file.bytes.original_width,
                                             file.bytes.original_height),
                      rects |-> file.bytes.rects,
                      contours |-> file.bytes.contours]]

\* preprocess_omr(file): file.read() gives the bytes from the read position
\* on; nothing decodable is left at the end of the file.  cv2.resize rejects
\* a destination size with a zero width (cv2.error).
preprocess_omr(file) ==
    IF file.pos # "start" \/ ~file.bytes.decodable THEN [raised |-> TRUE]
    ELSE IF target_width(file.bytes.original_width, file.bytes.original_height) = 0
    THEN [raised |-> TRUE]
    ELSE [raised |-> FALSE,
          thresh |-> [height |-> target_height,
                      width |-> target_width(file.bytes.original_width,
                                             file.bytes.original_height),
                      rects |-> file.bytes.rects,
                      contours |-> file.bytes.contours]]

(***************************************************************************)
(* db_setup.init_db and save_results                                       *)
(***************************************************************************)
DefaultColumns == <<"Subject1", "Subject2", "Subject3", "Subject4", "Subject5">>

\* Mutant: the table is created only if it is missing, its rows are kept.
init_db_keeps_rows(table, subjects) ==
    IF table.dir_ok
    THEN [table EXCEPT !.exists = TRUE,
                       !.columns = IF subjects # <<>> THEN subjects ELSE DefaultColumns]
    ELSE table

\* init_db(subjects): the table is dropped and created again, unless
\* os.makedirs raises first and the call returns False.
init_db(table, subjects) ==
    IF table.dir_ok
    THEN [table EXCEPT !.exists = TRUE,
                       !.columns = IF subjects # <<>> THEN subjects ELSE DefaultColumns,
                       !.rows = <<>>]
    ELSE table

\* "if not student_name or not subjects or not subject_scores"
InvalidData(student_name, scores, subjects) ==
    student_name = <<>> \/ subjects = <<>> \/ scores = <<>>

\* Whether "INSERT INTO results (Student, <subjects>, Total) VALUES (?, ...)"
\* with the values [student_name] + subject_scores + [total_score] goes
\* through: the table is there, every named subject is one of its columns,
\* and there are as many values as placeholders.
InsertSucceeds(table, scores, subjects) ==
    /\ table.exists
    /\ \A k \in 1..Len(subjects) : \E j \in 1..Len(table.columns) :
            table.columns[j] = subjects[k]
    /\ Len(scores) = Len(subjects)

\* save_results: the returned value, whether the INSERT went through, and
\* the table and the session cache afterwards.  The fallback after a failed
\* insert (lines 107-121) starts with "st.session_state", and db_setup
\* imports neither st nor pd: the NameError is caught by the bare except of
\* line 122, nothing is appended and the call returns False.
save_results(table, cache, student_name, scores, total, subjects) ==
    IF InvalidData(student_name, scores, subjects)
    THEN [ok |-> FALSE, inserted |-> FALSE, table |-> table, cache |-> cache]
    ELSE IF InsertSucceeds(table, scores, subjects)
    THEN [ok |-> TRUE, inserted |-> TRUE,
          table |-> [table EXCEPT !.rows =
                        Append(@, [Student |-> student_name, subjects |-> subjects,
                                   scores |-> scores, Total |-> total])],
          cache |-> cache]
    ELSE [ok |-> FALSE, inserted |-> FALSE, table |-> table, cache |-> cache]

\* The value returned when there is nothing to return.
NoResults == [data |-> {}, col_names |-> <<>>]

\* get_results_from_cache: an empty cache gives ([], []); for a non-empty
\* one "pd.DataFrame" raises NameError (pd is not imported), which the
\* handler of line 173 turns into ([], []) as well.
get_results_from_cache(cache) ==
    IF cache # <<>> THEN NoResults ELSE NoResults

\* get_all_results: the rows of the table with their ID (the order among
\* rows of the same second is not determined, data is given as a set) and
\* the column names, or the cache when there is no table.
get_all_results(table, cache) ==
    IF ~table.exists THEN get_results_from_cache(cache)
    ELSE [data |-> {[ID |-> k, row |-> table.rows[k]] : k \in 1..Len(table.rows)},
          col_names |-> <<"ID", "Student">> \o table.columns \o <<"Total", "Created_At">>]

(***************************************************************************)
(* app.py: the session, the key block and the evaluation loop              *)
(***************************************************************************)
\* The header names of the key columns, by position.
ColumnNames == <<"PYTHON", "DATA ANALYSIS", "MySQL", "POWER BI", "Adv STATS">>

\* "subject_names = [str(col) for col in df_key.columns.tolist()]"
SubjectNames(df) == [k \in 1..Len(df) |-> ColumnNames[k]]

\* df_key.empty
IsEmptyFrame(df) == Len(df) = 0 \/ Len(df[1]) = 0

\* Mutant: the session is accepted whenever a key and names are there.
check_session_state_ignores_flag(loaded, key, names) == key # <<>> /\ names # <<>>

\* check_session_state() on the given session values; an answer key of None
\* and an empty one are both <<>>.
check_session_state(loaded, key, names) == loaded /\ key # <<>> /\ names # <<>>

\* "choices_per_question=4" in the call of extract_bubbles.
app_choices_per_question == 4

StudentPrefix == <<"S", "t", "u", "d", "e", "n", "t">>

\* The f-strings of lines 628-631.
student_name(input, i, total_files) ==
    IF Strip(input) # <<>>
    THEN IF total_files > 1 THEN input \o <<"_">> \o NatToStr(i + 1) ELSE input
    ELSE StudentPrefix \o <<"_">> \o NatToStr(i + 1)

(***************************************************************************)
(* SpecApp: a session of the app: script runs that load the uploaded key   *)
(* and, when the button is pressed, evaluate the uploaded sheets one by    *)
(* one.                                                                    *)
(***************************************************************************)
MaxSheets == 2
MaxRuns == 2

\* Key files: 2 x 2 tables of "b" whose second row may have empty cells, a
\* table of empty cells, a labelled column, a table with columns of 3 and 1
\* entries, a table without rows, and the 5 x 20 key of the Innomatics sheet.
AppCells == {PyStr(<<"b">>), None}
AppKeys ==
    {<<<<PyStr(<<"b">>), b>>, <<PyStr(<<"b">>), d>>>> : b \in AppCells, d \in AppCells}
    \cup {<<<<None, None>>, <<None, None>>>>,
          <<<<PyStr(<<"b">>), PyStr(<<"3", " ", "-", " ", "c">>)>>>>,
          <<<<PyStr(<<"b">>), PyStr(<<"b">>), PyStr(<<"b">>)>>,
            <<PyStr(<<"b">>), None, None>>>>,
          <<<<>>, <<>>>>}
InnomaticsKey ==
    [n \in 1..InnomaticsSubjects |-> [q \in 1..InnomaticsQuestions |-> PyStr(<<"b">>)]]

\* Sheets: bytes that do not decode; a 50 x 600 photograph whose mask has
\* the second choice column of the first band marked over the whole height;
\* a 100 x 1200 photograph with one row of four bubbles, the second filled.
SheetBubble(j) == Contour(5 + 24 * (j - 1), 20, 12, 12, 100, 38)

Undecodable ==
    [decodable |-> FALSE, original_height |-> 0, original_width |-> 0,
     rects |-> {}, contours |-> <<>>]
StripeSheet ==
    [decodable |-> TRUE, original_height |-> 600, original_width |-> 50,
     rects |-> {ChoiceStripe(1200, 100, 0, 2, 1200)},
     contours |-> <<Contour(5, 0, 5, 1200, 6000, 2410)>>]
BubbleSheet ==
    [decodable |-> TRUE, original_height |-> 1200, original_width |-> 100,
     rects |-> {InkOn(SheetBubble(2))},
     contours |-> [j \in 1..4 |-> SheetBubble(j)]]

SheetBytes == {Undecodable, StripeSheet, BubbleSheet}
Batches ==
    {[k \in 1..Len(b) |-> [bytes |-> b[k], pos |-> "start"]] :
        b \in SeqsUpTo(SheetBytes, MaxSheets)}
\* The batches evaluated against the Innomatics key.
FewBatches ==
    {<<[bytes |-> StripeSheet, pos |-> "start"]>>,
     <<[bytes |-> Undecodable, pos |-> "start"], [bytes |-> StripeSheet, pos |-> "start"]>>}
NameInputs == {<<" ">>, <<"A">>}

InitApp ==
    /\ pc = "idle"
    /\ \/ answer_file = FALSE /\ df_key = <<>> /\ uploaded_files \in Batches
       \/ answer_file = TRUE /\ df_key \in AppKeys /\ uploaded_files \in Batches
       \/ answer_file = TRUE /\ df_key = InnomaticsKey /\ uploaded_files \in FewBatches
    /\ student_name_input \in NameInputs
    /\ answer_key_loaded = FALSE
    /\ answer_key = <<>>
    /\ subject_names = <<>>
    /\ idx = 0
    /\ all_results = <<>>
    /\ results_table \in {NoTable, [NoTable EXCEPT !.dir_ok = TRUE]}
    /\ sheet_log = <<>>
    /\ runs = 0
    /\ results_cache = <<>>
    /\ db_log = <<>>
    /\ via_loader = FALSE
    /\ converted = <<>>
    /\ choices_per_question = app_choices_per_question
    /\ strategy = "none"
    /\ ScoreIdle /\ ClassifyIdle /\ ExtractIdle

\* What becomes of the file in the key uploader in one run: it is read as
\* the table df_key; it cannot be read by either attempt (st.stop, line 461);
\* or the block raises after the reading and before the session is assigned
\* (the outer handler, lines 529-531).
KeyOutcomes == {"read", "unreadable", "error"}

\* One run of the script up to the evaluation loop: the key block
\* (lines 409-531), then the button branch (lines 564-586).
RunScript ==
    /\ pc = "idle"
    /\ runs < MaxRuns
    /\ runs' = runs + 1
    /\ \E button \in BOOLEAN, outcome \in KeyOutcomes :
        LET reads == answer_file /\ outcome = "read"
            failed == answer_file /\ outcome = "error"
            stopped == answer_file /\ (outcome = "unreadable" \/ (reads /\ IsEmptyFrame(df_key)))
            loads == reads /\ ~IsEmptyFrame(df_key)
            key == IF loads THEN answer_key_flat(df_key) ELSE answer_key
            names == IF loads THEN SubjectNames(df_key) ELSE subject_names
            loaded == IF loads THEN TRUE ELSE IF failed THEN FALSE ELSE answer_key_loaded
        IN  /\ answer_file \/ outcome = "read"
            /\ answer_key' = key
            /\ subject_names' = names
            /\ answer_key_loaded' = loaded
            /\ via_loader' = (loads \/ via_loader)
            /\ results_table' =
                  IF loads THEN init_db(results_table, names) ELSE results_table
            /\ IF button /\ ~stopped /\ check_session_state(loaded, key, names)
                  /\ uploaded_files # <<>>
               THEN /\ pc' = "evaluating"
                    /\ idx' = 0
                    /\ all_results' = <<>>
               ELSE /\ pc' = "idle"
                    /\ UNCHANGED <<idx, all_results>>
    /\ UNCHANGED <<df_key, converted, choices_per_question, strategy, answer_file,
                   uploaded_files, student_name_input, sheet_log, results_cache,
                   db_log, scoreVars, classifyVars, extractVars>>

\* What the loop leaves when the body of the try raised: no result.
LogEntry(file, ok, answers) ==
    [run |-> runs, idx |-> idx, bytes |-> file.bytes, ok |-> ok, answers |-> answers]

\* One iteration of the evaluation loop (lines 588-666).  st.image reads the
\* file and may leave it at any position (left_at); for bytes that are no
\* image it may raise before preprocess_omr is called.
ProcessSheet ==
    /\ pc = "evaluating"
    /\ idx < Len(uploaded_files)
    /\ idx' = idx + 1
    /\ pc' = "evaluating"
    /\ \E left_at \in {"start", "end"} :
        LET file == uploaded_files[idx + 1]
            shown == [file EXCEPT !.pos = left_at]
            rewound == seek(shown, 0)
            pre == preprocess_omr(rewound)
            read == [rewound EXCEPT !.pos = "end"]
            S == Len(subject_names)
            Q == Len(answer_key) \div Len(subject_names)
            score == calculate_score(extracted', answer_key, S, Q)
            name == student_name(student_name_input, idx, Len(uploaded_files))
        IN  \/ /\ ~file.bytes.decodable
               /\ uploaded_files' = [uploaded_files EXCEPT ![idx + 1] = shown]
               /\ sheet_log' = Append(sheet_log, LogEntry(file, FALSE, <<>>))
               /\ UNCHANGED <<all_results, results_table, results_cache, answer_key,
                              scoreVars, strategy, extractVars>>
            \/ /\ pre.raised
               /\ uploaded_files' = [uploaded_files EXCEPT ![idx + 1] = read]
               /\ sheet_log' = Append(sheet_log, LogEntry(file, FALSE, <<>>))
               /\ UNCHANGED <<all_results, results_table, results_cache, answer_key,
                              scoreVars, strategy, extractVars>>
            \/ /\ ~pre.raised
               /\ uploaded_files' = [uploaded_files EXCEPT ![idx + 1] = read]
               /\ thresh_img' = pre.thresh
               /\ extracted' = extract_bubbles(pre.thresh, S, Q, app_choices_per_question)
               /\ strategy' = StrategyFor(S, Q, app_choices_per_question)
               /\ num_subjects' = S
               /\ questions_per_subject' = Q
               /\ IF score.raised
                  THEN /\ sheet_log' = Append(sheet_log, LogEntry(file, FALSE, extracted'))
                       /\ UNCHANGED <<all_results, results_table, results_cache,
                                      answer_key, student_answers, subject_scores,
                                      total_score>>
                  ELSE /\ sheet_log' = Append(sheet_log, LogEntry(file, TRUE, extracted'))
                       /\ student_answers' = score.student_answers
                       /\ answer_key' = score.answer_key
                       /\ subject_scores' = score.subject_scores
                       /\ total_score' = score.total_score
                       /\ all_results' =
                             Append(all_results,
                                    [Student |-> name,
                                     scores |-> subject_scores',
                                     Total |-> total_score'])
                       /\ results_table' =
                             save_results(results_table, results_cache, name,
                                          subject_scores', total_score',
                                          subject_names).table
                       /\ results_cache' =
                             save_results(results_table, results_cache, name,
                                          subject_scores', total_score',
                                          subject_names).cache
    /\ UNCHANGED <<df_key, via_loader, converted, choices_per_question,
                   answer_file, answer_key_loaded, subject_names, student_name_input,
                   runs, db_log, classifyVars>>

\* The loop is through (lines 668-670).
FinishEvaluation ==
    /\ pc = "evaluating"
    /\ idx = Len(uploaded_files)
    /\ pc' = "idle"
    /\ UNCHANGED <<df_key, answer_key, via_loader, converted, choices_per_question,
                   strategy, scoreVars, classifyVars, extractVars, appVars>>

NextApp == RunScript \/ ProcessSheet \/ FinishEvaluation

SpecApp == InitApp /\ [][NextApp]_vars

DecodableUpTo(n) == {i \in 1..n : uploaded_files[i].bytes.decodable}

\* C19: in a batch evaluation a sheet whose bytes cannot be decoded raises out
\* of preprocess_omr, contributes no entry to the batch results and nothing
\* is saved for it, and the loop goes on: every sheet that decodes, also
\* after the failed one, has its entry in the results.
C19_UndecodableSheetSkipped ==
    [][/\ (pc = "evaluating" /\ idx < Len(uploaded_files)
             /\ ~uploaded_files[idx + 1].bytes.decodable)
          => /\ preprocess_omr(seek(uploaded_files[idx + 1], 0)).raised
             /\ all_results' = all_results
             /\ results_table' = results_table
             /\ pc' = "evaluating"
             /\ idx' = idx + 1
       /\ pc' = "evaluating"
          => Len(all_results') = Cardinality(DecodableUpTo(idx'))
       /\ (pc = "evaluating" /\ pc' = "idle") => idx = Len(uploaded_files)]_vars

\* The first sheet of two did not decode; the second is reported (as
\* Student_2) and saved.
C19_Witness ==
    /\ pc = "idle"
    /\ idx = 2
    /\ ~uploaded_files[1].bytes.decodable
    /\ uploaded_files[2].bytes.decodable
    /\ Len(all_results) = 1
    /\ all_results[1].Student = StudentPrefix \o <<"_", "2">>
    /\ Len(results_table.rows) = 1

\* The number of entries of a key column.
Entries(col) == Len(SelectSeq(col, LAMBDA c : ~IsNull(c)))

\* The maximum number of entries across the key columns.
MaxEntries(df) ==
    CHOOSE n \in {Entries(df[k]) : k \in 1..Len(df)} :
        \A k \in 1..Len(df) : Entries(df[k]) <= n

\* C20: the caller passes num_subjects = the number of key columns and
\* questions_per_subject = the maximum row count across the key columns to
\* extract_bubbles and calculate_score, for every uploaded key, also keys
\* with empty cells or columns of different numbers of entries.
C20_LayoutFromKey ==
    (pc = "evaluating" /\ idx > 0 /\ sheet_log[Len(sheet_log)].ok) =>
        /\ num_subjects = Len(df_key)
        /\ questions_per_subject = MaxEntries(df_key)

\* The layout the evaluation loop derives from the session.
SessionSubjects == Len(subject_names)
SessionQuestions == Len(answer_key) \div Len(subject_names)

\* C21: the answer key built from the uploaded columns has exactly
\* num_subjects * questions_per_subject entries, and the entry of question q
\* (0-based) of the s-th column sits at index s * questions_per_subject + q,
\* also when a column has null cells.
C21_KeyAlignedWithSegments ==
    (answer_key_loaded /\ subject_names # <<>>) =>
        /\ Len(answer_key) = SessionSubjects * SessionQuestions
        /\ \A s \in 0..(Len(df_key) - 1), q \in 0..(Len(df_key[1]) - 1) :
              ~IsNull(df_key[s + 1][q + 1]) =>
                  /\ s * SessionQuestions + q + 1 <= Len(answer_key)
                  /\ answer_key[s * SessionQuestions + q + 1] = CleanCell(df_key[s + 1][q + 1])

\* C22: the answer key is read-only during evaluation: after any number of
\* evaluated sheets the session's answer_key and subject_names are the ones
\* the key block built from the uploaded key.
C22_KeyReadOnly ==
    answer_key_loaded =>
        /\ answer_key = answer_key_flat(df_key)
        /\ subject_names = SubjectNames(df_key)

\* Two sheets were scored against a key of 3 entries that the scorer cuts to
\* a copy of 2.
C22_Witness ==
    /\ pc = "idle"
    /\ idx = 2
    /\ Len(all_results) = 2
    /\ Len(answer_key) = 3
    /\ num_subjects * questions_per_subject = 2
    /\ answer_key = answer_key_flat(df_key)

(***************************************************************************)
(* SpecPreprocess: one call of preprocess_omr on one uploaded photograph.  *)
(***************************************************************************)
OriginalWidths == {1, 2, 3, 11, 22, 50, 100, 800}
OriginalHeights == {1, 15, 30, 600, 800, 1200, 1201, 2400}
Photographs ==
    {[decodable |-> TRUE, original_height |-> h, original_width |-> w,
      rects |-> {}, contours |-> <<>>] : w \in OriginalWidths, h \in OriginalHeights}
    \cup {Undecodable}

InitPreprocess ==
    /\ pc = "call"
    /\ \E bytes \in Photographs : uploaded_files = <<[bytes |-> bytes, pos |-> "start"]>>
    /\ answer_key = <<>>
    /\ num_subjects = 0
    /\ questions_per_subject = 0
    /\ choices_per_question = 0
    /\ strategy = "none"
    /\ student_answers = <<>>
    /\ subject_scores = <<>>
    /\ total_score = 0
    /\ answer_file = FALSE
    /\ answer_key_loaded = FALSE
    /\ subject_names = <<>>
    /\ student_name_input = <<>>
    /\ idx = 0
    /\ all_results = <<>>
    /\ results_table = NoTable
    /\ sheet_log = <<>>
    /\ runs = 0
    /\ results_cache = <<>>
    /\ db_log = <<>>
    /\ KeyIdle /\ ClassifyIdle /\ ExtractIdle

\* A call of preprocess_omr(uploaded_files[0]).
Preprocess ==
    /\ pc = "call"
    /\ LET pre == preprocess_omr(uploaded_files[1])
       IN  IF pre.raised
           THEN /\ pc' = "raised"
                /\ UNCHANGED thresh_img
           ELSE /\ pc' = "done"
                /\ thresh_img' = pre.thresh
    /\ uploaded_files' = [uploaded_files EXCEPT ![1].pos = "end"]
    /\ UNCHANGED <<df_key, answer_key, via_loader, converted, choices_per_question,
                   strategy, extracted, scoreVars, classifyVars, answer_file,
                   answer_key_loaded, subject_names, student_name_input, idx,
                   all_results, results_table, sheet_log, runs, results_cache, db_log>>

NextPreprocess == Preprocess

SpecPreprocess == InitPreprocess /\ [][NextPreprocess]_vars

\* C23: for every original width and height of a decodable photograph,
\* preprocess_omr gives a mask of height 1200 whose width is 1200 *
\* original_width / original_height rounded to the nearest integer (a tie
\* may go either way), and both dimensions are greater than 0.
C23_ResizeRoundsToNearest ==
    (pc # "call" /\ uploaded_files[1].bytes.decodable) =>
        LET w == uploaded_files[1].bytes.original_width
            h == uploaded_files[1].bytes.original_height
        IN  /\ pc = "done"
            /\ thresh_img.height = target_height
            /\ thresh_img.width > 0
            /\ 2 * thresh_img.width * h <= 2 * target_height * w + h
            /\ 2 * thresh_img.width * h >= 2 * target_height * w - h

(***************************************************************************)
(* Claims about the arguments and the padding of calculate_score           *)
(* (SpecScore).                                                            *)
(***************************************************************************)
\* C24: calculate_score has no effect on its arguments: after the call the
\* caller's student_answers list has the same length and contents as before
\* the call, whatever its length.
C24_StudentListUntouched ==
    [][(pc = "call" /\ pc' = "done") => student_answers' = student_answers]_vars

\* The entry a list has at 1-based position p once it is padded.
PaddedAt(lst, p) == IF p <= Len(lst) THEN lst[p] ELSE PadValue

\* The positions of the n-th subject's segment, and those past both lists.
SegmentPositions(n, Q) == (start_idx(n - 1, Q) + 1)..end_idx(n - 1, Q)
BeyondBoth(student, key, n, Q) ==
    {p \in SegmentPositions(n, Q) : p > Len(student) /\ p > Len(key)}

\* C25: when both the student answers and the answer key are shorter than
\* num_subjects * questions_per_subject, every position beyond the end of
\* both is padded with 1 on both sides and counted as a correct answer: each
\* subject's score is the number of positions of its segment at which the
\* padded lists agree, which includes all positions beyond both; an empty
\* student list against an empty key gets total = num_subjects *
\* questions_per_subject.
C25_PaddingCountsAsCorrect ==
    [][(/\ pc = "call" /\ pc' = "done"
        /\ Len(student_answers) < num_subjects * questions_per_subject
        /\ Len(answer_key) < num_subjects * questions_per_subject) =>
          LET key_numbers == convert_answer_key_letters(answer_key).v
          IN  /\ \A n \in 1..num_subjects :
                    /\ subject_scores'[n] =
                          Cardinality({p \in SegmentPositions(n, questions_per_subject) :
                                          PaddedAt(student_answers, p)
                                              = PaddedAt(key_numbers, p)})
                    /\ subject_scores'[n] >=
                          Cardinality(BeyondBoth(student_answers, answer_key, n,
                                                 questions_per_subject))
              /\ (student_answers = <<>> /\ answer_key = <<>>) =>
                    total_score' = num_subjects * questions_per_subject]_vars

\* An empty key was scored with a full mark for 2 x 2 questions, none of
\* which the key holds.
C25_Witness ==
    /\ pc = "done"
    /\ answer_key = <<>>
    /\ num_subjects = 2 /\ questions_per_subject = 2
    /\ student_answers = <<1, 1, 1, 1>>
    /\ subject_scores = <<2, 2>>
    /\ total_score = 4

(***************************************************************************)
(* Claims about ties of the fill classifier (SpecClassify).                *)
(***************************************************************************)
\* The choices that share the maximum fill fraction.
TiedAtMaximum(regions) == {k \in 1..Len(regions) : IsMaximum(regions, k)}

\* C26: when two or more choices of a question share the maximum fill
\* fraction and that maximum exceeds the threshold, the selected answer is
\* the lowest index among the tied choices, in both strategies.
C26_TieTakesLowestIndex ==
    (/\ pc = "done"
     /\ Cardinality(TiedAtMaximum(bubble_ratios)) >= 2
     /\ \E k \in TiedAtMaximum(bubble_ratios) :
            FractionAbove(bubble_ratios[k], ThresholdPercent)) =>
        /\ selected_choice \in TiedAtMaximum(bubble_ratios)
        /\ \A k \in TiedAtMaximum(bubble_ratios) : selected_choice <= k

\* Three choices of the fixed grid share the fraction 0.06, in regions of
\* different sizes; the second choice, the first of them, is selected.
C26_Witness ==
    /\ pc = "done"
    /\ strategy = "innomatics"
    /\ bubble_ratios = <<Region(0, 100), Region(3, 50), Region(6, 100), Region(6, 100)>>
    /\ selected_choice = 2

(***************************************************************************)
(* Claims about the guard of the evaluation and the database (SpecApp).    *)
(***************************************************************************)
\* C27: in every run, extract_bubbles and calculate_score are invoked for a
\* sheet only when answer_key_loaded is true, the session answer_key and
\* subject_names are non-empty and at least one sheet is uploaded, so that
\* len(answer_key) // len(subject_names) never has a zero divisor; this
\* holds also in a run after a failed key upload.
C27_EvaluationGuarded ==
    pc = "evaluating" =>
        /\ answer_key_loaded
        /\ answer_key # <<>>
        /\ subject_names # <<>>
        /\ Len(subject_names) # 0
        /\ uploaded_files # <<>>

\* A sheet was evaluated in the second run of a session whose first run
\* evaluated nothing.
C27_Witness ==
    /\ pc = "evaluating"
    /\ runs = 2
    /\ idx = 1
    /\ Len(sheet_log) = 1
    /\ sheet_log[1].ok
    /\ sheet_log[1].run = 2
    /\ Len(extracted) = Len(subject_names) * (Len(answer_key) \div Len(subject_names))

(***************************************************************************)
(* SpecDb: calls of init_db and save_results on one database, in any       *)
(* order.                                                                  *)
(***************************************************************************)
MaxCalls == 3

SubjectLists == {<<>>, <<"PYTHON">>, <<"PYTHON", "DATA ANALYSIS">>}
StudentNames == {<<>>, <<"A">>}
ScoreLists == {<<>>, <<1>>, <<1, 2>>}

InitDb ==
    /\ pc = "db"
    /\ results_table \in {NoTable, [NoTable EXCEPT !.dir_ok = TRUE]}
    /\ results_cache = <<>>
    /\ db_log = <<>>
    /\ answer_key = <<>>
    /\ choices_per_question = 0
    /\ strategy = "none"
    /\ answer_file = FALSE
    /\ answer_key_loaded = FALSE
    /\ subject_names = <<>>
    /\ uploaded_files = <<>>
    /\ student_name_input = <<>>
    /\ idx = 0
    /\ all_results = <<>>
    /\ sheet_log = <<>>
    /\ runs = 0
    /\ KeyIdle /\ ScoreIdle /\ ClassifyIdle /\ ExtractIdle

\* A call of init_db(subjects); it returns True when the table was made.
CallInitDb ==
    /\ pc = "db"
    /\ Len(db_log) < MaxCalls
    /\ \E subjects \in SubjectLists :
          /\ results_table' = init_db(results_table, subjects)
          /\ db_log' = Append(db_log,
                [call |-> "init_db", subjects |-> subjects, student |-> <<>>,
                 scores |-> <<>>, total |-> 0, inserted |-> FALSE,
                 ok |-> results_table.dir_ok])
    /\ UNCHANGED <<pc, df_key, answer_key, via_loader, converted, choices_per_question,
                   strategy, scoreVars, classifyVars, extractVars, answer_file,
                   answer_key_loaded, subject_names, uploaded_files,
                   student_name_input, idx, all_results, sheet_log, runs,
                   results_cache>>

\* A call of save_results(student_name, subject_scores, total_score, subjects).
CallSaveResults ==
    /\ pc = "db"
    /\ Len(db_log) < MaxCalls
    /\ \E subjects \in SubjectLists, student \in StudentNames, scores \in ScoreLists :
          LET saved == save_results(results_table, results_cache, student, scores,
                                    SumSeq(scores), subjects)
          IN  /\ results_table' = saved.table
              /\ results_cache' = saved.cache
              /\ db_log' = Append(db_log,
                    [call |-> "save_results", subjects |-> subjects,
                     student |-> student, scores |-> scores,
                     total |-> SumSeq(scores), inserted |-> saved.inserted,
                     ok |-> saved.ok])
    /\ UNCHANGED <<pc, df_key, answer_key, via_loader, converted, choices_per_question,
                   strategy, scoreVars, classifyVars, extractVars, answer_file,
                   answer_key_loaded, subject_names, uploaded_files,
                   student_name_input, idx, all_results, sheet_log, runs>>

NextDb == CallInitDb \/ CallSaveResults

SpecDb == InitDb /\ [][NextDb]_vars

(***************************************************************************)
(* Claims about the database (SpecDb).                                     *)
(***************************************************************************)
LastCall == db_log[Len(db_log)]
AfterSuccessfulInit ==
    db_log # <<>> /\ LastCall.call = "init_db" /\ LastCall.ok

\* C28 (as stated): after any sequence of save_results calls followed by a
\* successful init_db(subjects), the results table exists with one column
\* per subject and holds no rows, and get_all_results returns none of the
\* results saved before.
C28_InitDiscardsHistory ==
    AfterSuccessfulInit =>
        /\ results_table.exists
        /\ results_table.columns = LastCall.subjects
        /\ results_table.rows = <<>>
        /\ get_all_results(results_table, results_cache).data = {}

\* C28 (amended): the same, the table having one column per subject when
\* subjects is not empty and the five columns Subject1..Subject5 when it is.
C28_InitDiscardsHistoryOrDefault ==
    AfterSuccessfulInit =>
        /\ results_table.exists
        /\ results_table.columns =
              IF LastCall.subjects # <<>> THEN LastCall.subjects ELSE DefaultColumns
        /\ results_table.rows = <<>>
        /\ get_all_results(results_table, results_cache).data = {}

\* A result was saved into a table of one subject, and the table was then
\* made again for two subjects.
C28_Witness ==
    /\ Len(db_log) = 3
    /\ db_log[1].call = "init_db" /\ db_log[1].ok
    /\ db_log[2].call = "save_results" /\ db_log[2].inserted
    /\ db_log[3].call = "init_db" /\ db_log[3].ok
    /\ db_log[3].subjects = <<"PYTHON", "DATA ANALYSIS">>
    /\ results_table.rows = <<>>

\* The result a save_results call was given.
ResultOf(entry) ==
    [Student |-> entry.student, subjects |-> entry.subjects,
     scores |-> entry.scores, Total |-> entry.total]

\* C29: when the database insert in save_results fails, the result is
\* appended to the session results cache and save_results returns True, and
\* a get_all_results that cannot read the results table returns the cached
\* results instead.
C29_FailedInsertIsCached ==
    (/\ db_log # <<>>
     /\ LastCall.call = "save_results"
     /\ ~InvalidData(LastCall.student, LastCall.scores, LastCall.subjects)
     /\ ~LastCall.inserted) =>
        /\ LastCall.ok
        /\ results_cache # <<>>
        /\ results_cache[Len(results_cache)] = ResultOf(LastCall)
        /\ ~results_table.exists =>
              get_all_results(results_table, results_cache).data # {}

====
